---- MODULE Spec2Model ----
(***************************************************************************)
(* A model of the riscemu user-mode execution engine: UserModeCPU          *)
(* (src/riscemu/CPU.py), the RV32I handlers                                *)
(* (src/riscemu/instructions/RV32I.py) and the assertion helpers           *)
(* (src/riscemu/types/exceptions.py).                                      *)
(*                                                                         *)
(* A Word (Int32) is held as its signed two's-complement value, which is   *)
(* exactly the range of TLC's integers; every operation that can leave     *)
(* that range in Python is written so that no intermediate value does.     *)
(* A Python integer that can leave that range (an unsigned value, the      *)
(* program counter) is held as the pair [top, low] of top * 2^31 + low.    *)
(***************************************************************************)
EXTENDS Integers, Sequences, FiniteSets, TLC

VARIABLES
    pc,               \* CPU.pc
    regs,             \* CPU.regs: register name -> Word
    halted,           \* CPU.halted
    cycle,            \* CPU.cycle
    exit_code,        \* UserModeCPU.exit_code
    debugger_active,  \* CPU.debugger_active
    sections,         \* MMU.sections: set of [name, base, size, code]
    mem,              \* bytes written so far: address -> byte (others are 0)
    stack_size,       \* conf.stack_size
    verbosity,        \* conf.verbosity
    faulted,          \* step has printed a fault's diagnostic (observation only)
    callstack,        \* frames above the driver: "run" (CPU.run), "debug" (debug session)
    last,             \* what the last operation did (observation only)
    global_symbols,   \* MMU.global_symbols: name -> address
    imm_len,          \* the last call of ASSERT_IMM_LEN and its outcome
    tok               \* the last call into the tokenizer and what it emitted

vars == <<pc, regs, halted, cycle, exit_code, debugger_active, sections, mem,
          stack_size, verbosity, faulted, callstack, last,
          global_symbols, imm_len, tok>>

(***************************************************************************)
(* Bounds of the model.                                                    *)
(***************************************************************************)
\* steps that execute (the cycle counter is capped here)
MaxCycle == 2
\* instructions in the loaded program
ProgLen == 2
\* characters in a line given to the tokenizer
MaxLineLen == 5
\* data sections the loader places at fixed addresses before the stack
MaxData == 2

(***************************************************************************)
(* Program constants.                                                      *)
(***************************************************************************)
INS_XLEN == 4
MaxInt32 == 2147483647
MinInt32 == -MaxInt32 - 1
GuardBand == 4096
DefaultStackSize == 4096
GpioBase == 1610629120
IoBase == 1610649600
PeripheralSize == 200

(***************************************************************************)
(* Words (types.Int32 / types.UInt32).                                     *)
(***************************************************************************)
\* Int32(a + b): the sum wrapped to 32 bits, as a signed value
Int32Add(a, b) ==
    IF b > 0 /\ a > MaxInt32 - b
    THEN (a - MaxInt32 - 1) + (b - MaxInt32 - 1)
    ELSE IF b < 0 /\ a < MinInt32 - b
    THEN (a + MaxInt32 + 1) + (b + MaxInt32 + 1)
    ELSE a + b

\* a Python integer v of the Int32 range, as top * 2^31 + low with 0 <= low < 2^31
Wide(v) ==
    [top |-> IF v < 0 THEN -1 ELSE 0,
     low |-> IF v < 0 THEN (v + MaxInt32) + 1 ELSE v]

\* Int32.unsigned_value: w for w >= 0, w + 2^32 otherwise
unsigned_value(w) ==
    [top |-> IF w < 0 THEN 1 ELSE 0,
     low |-> IF w < 0 THEN (w + MaxInt32) + 1 ELSE w]

\* p + n for a Python integer p and 0 <= n < 2^31
WideAdd(p, n) ==
    IF p.low > MaxInt32 - n
    THEN [top |-> p.top + 1, low |-> (p.low - MaxInt32) + (n - 1)]
    ELSE [top |-> p.top, low |-> p.low + n]

\* Int32(p): the Python integer p wrapped to 32 bits, as a signed value
Int32OfWide(p) ==
    IF p.top % 2 = 0 THEN p.low ELSE (p.low - MaxInt32) - 1

\* UInt32(a) < UInt32(b): comparison of the unsigned views of two words
UInt32Less(a, b) ==
    IF (a >= 0) = (b >= 0) THEN a < b ELSE a >= 0

\* val & 0xFFFFFFFE on the 32-bit pattern of val, as an Int32
AndFFFFFFFE(val) == val - (val % 2)

\* Int32.__sub__: the difference wrapped to 32 bits
Int32Sub(a, b) ==
    IF b = MinInt32
    THEN (IF a >= 0 THEN a + MinInt32 ELSE (a + MaxInt32) + 1)
    ELSE Int32Add(a, -b)

\* Int32.__and__, __or__, __xor__ on the two's-complement bit patterns
RECURSIVE BitAnd(_, _)
BitAnd(a, b) ==
    IF a = 0 \/ b = 0 THEN 0
    ELSE IF a = -1 THEN b
    ELSE IF b = -1 THEN a
    ELSE (a % 2) * (b % 2) + 2 * BitAnd(a \div 2, b \div 2)

RECURSIVE BitOr(_, _)
BitOr(a, b) ==
    IF a = 0 THEN b
    ELSE IF b = 0 THEN a
    ELSE IF a = -1 \/ b = -1 THEN -1
    ELSE (IF a % 2 = 1 \/ b % 2 = 1 THEN 1 ELSE 0) + 2 * BitOr(a \div 2, b \div 2)

RECURSIVE BitXor(_, _)
BitXor(a, b) ==
    IF a = 0 THEN b
    ELSE IF b = 0 THEN a
    ELSE IF a = -1 THEN -1 - b
    ELSE IF b = -1 THEN -1 - a
    ELSE (((a % 2) + (b % 2)) % 2) + 2 * BitXor(a \div 2, b \div 2)

\* Int32.__lshift__: v << n wrapped to 32 bits, n >= 0
RECURSIVE ShiftLeft(_, _)
ShiftLeft(v, n) == IF n <= 0 THEN v ELSE ShiftLeft(Int32Add(v, v), n - 1)

\* Int32.__rshift__: the signed value shifted right, the sign bit filling in
RECURSIVE ShiftRightArith(_, _)
ShiftRightArith(v, n) == IF n <= 0 THEN v ELSE ShiftRightArith(v \div 2, n - 1)

\* Int32.shift_right_logical: the unsigned value shifted right, zeros filling in
ShiftRightLogical(v, n) ==
    IF n <= 0 THEN v
    ELSE IF v >= 0 THEN ShiftRightArith(v, n)
    ELSE ShiftRightArith((((v + MaxInt32) + 1) \div 2) + 1073741824, n - 1)

\* UInt32(imm << 12), as an Int32: the low 20 bits of imm moved to the top
Shl12(imm) ==
    LET m == imm % 1048576
    IN IF m >= 524288 THEN (m - 1048576) * 4096 ELSE m * 4096

RegNames == {"zero", "ra", "sp", "a0", "a1", "utilreg"}

\* Registers.get
RegGet(rf, r) == rf[r]

\* Registers.set: writes to the zero register are discarded
RegSet(rf, r, v) == IF r = "zero" THEN rf ELSE [rf EXCEPT ![r] = v]

(***************************************************************************)
(* Address space (MMU).                                                    *)
(***************************************************************************)
SecEnd(sec) == sec.base + sec.size

\* the section holding [addr, addr + size), if any
SectionsContaining(addr, size) ==
    {sec \in sections : sec.base <= addr /\ addr <= SecEnd(sec) - size}

Max(S) == CHOOSE x \in S : \A y \in S : y <= x

\* the next free address above all existing sections
FreeAddress(secs) == IF secs = {} THEN 0 ELSE Max({SecEnd(sec) : sec \in secs})

Overlaps(secs, base, size) ==
    \E sec \in secs : base < SecEnd(sec) /\ sec.base < base + size

\* MMU.load_section: the placed section's base, or -1 when placement fails
PlaceBase(secs, base, size, fixed) ==
    LET at == IF fixed THEN base ELSE FreeAddress(secs)
    IN IF Overlaps(secs, at, size) THEN -1 ELSE at

\* one byte of memory (sections are zero-initialised)
ByteAt(m, a) == IF a \in DOMAIN m THEN m[a] ELSE 0

\* Int32.to_bytes(n): little-endian bytes of a word
ToByte(v, i) ==
    CASE i = 0 -> v % 256
      [] i = 1 -> (v \div 256) % 256
      [] i = 2 -> (v \div 65536) % 256
      [] i = 3 -> (v \div 16777216) % 256

\* Int32(bytes) of four little-endian bytes
WordOfBytes(b0, b1, b2, b3) ==
    b0 + 256 * b1 + 65536 * b2
       + 16777216 * (IF b3 >= 128 THEN b3 - 256 ELSE b3)

\* Int32.sign_extend(byte, 8)
SignExtend8(b) == IF b >= 128 THEN b - 256 ELSE b

\* Int32.sign_extend(halfword, 16)
SignExtend16(h) == IF h >= 32768 THEN h - 65536 ELSE h

\* MMU.write of n bytes of word v at addr
MemWrite(m, addr, n, v) ==
    [a \in DOMAIN m \cup {addr + i : i \in 0..(n - 1)} |->
        IF a >= addr /\ a < addr + n THEN ToByte(v, a - addr) ELSE m[a]]

(***************************************************************************)
(* Instructions: [name, args]; an operand is a register name or an         *)
(* immediate, held as a record with the unused field blank.                *)
(***************************************************************************)
R(r) == [reg |-> r, imm |-> 0]
I(v) == [reg |-> "", imm |-> v]
\* the memory operand imm(rs)
M(v, r) == [reg |-> r, imm |-> v]

\* Instruction.get_reg / Instruction.get_imm (operands are counted from 0)
get_reg(ins, i) == ins.args[i + 1].reg
get_imm(ins, i) == ins.args[i + 1].imm

\* ASSERT_LEN passes
ASSERT_LEN(a1, size) == Len(a1) = size

\* 2 ** n
RECURSIVE Pow2(_)
Pow2(n) == IF n = 0 THEN 1 ELSE 2 * Pow2(n - 1)

\* ASSERT_IMM_LEN passes
ASSERT_IMM_LEN(val, nbits, signed) ==
    IF ~signed
    THEN ~(val > Pow2(nbits) - 1 \/ val < 0)
    ELSE LET max_p == Pow2(nbits - 1) - 1
             min_p == -Pow2(nbits - 1)
         IN IF val > max_p
            THEN LET nval == -(Pow2(nbits) - val)
                 IN ~(nval > max_p \/ nval < min_p)
            ELSE ~(val > max_p \/ val < min_p)

\* ASSERT_WORD_ALIGNED passes: address % 4 = 0 (2^31 is a multiple of 4)
ASSERT_WORD_ALIGNED(address) == address.low % 4 = 0

\* the machine state a handler works on, and what it leaves behind
Machine(p, rf, m) ==
    [pc |-> p, regs |-> rf, mem |-> m, exc |-> "none",
     exit |-> [requested |-> FALSE, code |-> 0]]
Raise(s, e) == [s EXCEPT !.exc = e]

\* the operand counts of InstructionSet.parse_mem_ins: rd, rs, imm and rd, imm(rs)
parse_mem_ins_ok(ins) == Len(ins.args) \in {2, 3}

\* InstructionSet.parse_mem_ins: (rd, rs + imm)
parse_mem_ins(ins, s) ==
    [rd |-> get_reg(ins, 0),
     addr |-> IF Len(ins.args) = 3
              THEN Int32Add(RegGet(s.regs, get_reg(ins, 1)), get_imm(ins, 2))
              ELSE Int32Add(RegGet(s.regs, get_reg(ins, 1)), get_imm(ins, 1))]

\* InstructionSet.parse_rd_rs_rs and parse_rd_rs_imm
parse_rd_rs_rs(ins, s) ==
    [rd |-> get_reg(ins, 0),
     rs1 |-> RegGet(s.regs, get_reg(ins, 1)),
     rs2 |-> RegGet(s.regs, get_reg(ins, 2))]
parse_rd_rs_imm(ins, s) ==
    [rd |-> get_reg(ins, 0),
     rs1 |-> RegGet(s.regs, get_reg(ins, 1)),
     imm |-> get_imm(ins, 2)]

\* InstructionSet.parse_rs_rs_imm
parse_rs_rs_imm(ins, s) ==
    [rs1 |-> RegGet(s.regs, get_reg(ins, 0)),
     rs2 |-> RegGet(s.regs, get_reg(ins, 1)),
     dst |-> get_imm(ins, 2)]

\* MMU.read / MMU.write of n bytes at an address: a section holds the bytes
\* (every section lies below 2^31)
Mapped(address, n) ==
    address.top = 0 /\ SectionsContaining(address.low, n) # {}

(***************************************************************************)
(* RV32I handlers.                                                         *)
(***************************************************************************)
instruction_lb(ins, s) ==
    IF ~parse_mem_ins_ok(ins) THEN Raise(s, "ParseException")
    ELSE LET p == parse_mem_ins(ins, s)
             a == unsigned_value(p.addr)
         IN IF ~Mapped(a, 1) THEN Raise(s, "MemoryAccessException")
            ELSE [s EXCEPT !.regs = RegSet(s.regs, p.rd,
                                           SignExtend8(ByteAt(s.mem, a.low)))]

instruction_lh(ins, s) ==
    IF ~parse_mem_ins_ok(ins) THEN Raise(s, "ParseException")
    ELSE LET p == parse_mem_ins(ins, s)
             a == unsigned_value(p.addr)
         IN IF ~Mapped(a, 2) THEN Raise(s, "MemoryAccessException")
            ELSE [s EXCEPT !.regs = RegSet(s.regs, p.rd,
                     SignExtend16(ByteAt(s.mem, a.low) + 256 * ByteAt(s.mem, a.low + 1)))]

instruction_lbu(ins, s) ==
    IF ~parse_mem_ins_ok(ins) THEN Raise(s, "ParseException")
    ELSE LET p == parse_mem_ins(ins, s)
             a == unsigned_value(p.addr)
         IN IF ~Mapped(a, 1) THEN Raise(s, "MemoryAccessException")
            ELSE [s EXCEPT !.regs = RegSet(s.regs, p.rd, ByteAt(s.mem, a.low))]

instruction_lhu(ins, s) ==
    IF ~parse_mem_ins_ok(ins) THEN Raise(s, "ParseException")
    ELSE LET p == parse_mem_ins(ins, s)
             a == unsigned_value(p.addr)
         IN IF ~Mapped(a, 2) THEN Raise(s, "MemoryAccessException")
            ELSE [s EXCEPT !.regs = RegSet(s.regs, p.rd,
                     ByteAt(s.mem, a.low) + 256 * ByteAt(s.mem, a.low + 1))]

\* a variant of lw that omits the alignment check
instruction_lw_unchecked(ins, s) ==
    IF ~ASSERT_LEN(ins.args, 3) THEN Raise(s, "ParseException")
    ELSE LET p == parse_mem_ins(ins, s)
             a == unsigned_value(p.addr)
         IN IF ~Mapped(a, 4) THEN Raise(s, "MemoryAccessException")
            ELSE [s EXCEPT !.regs = RegSet(s.regs, p.rd,
                     WordOfBytes(ByteAt(s.mem, a.low), ByteAt(s.mem, a.low + 1),
                                 ByteAt(s.mem, a.low + 2), ByteAt(s.mem, a.low + 3)))]

\* a variant of lw that leaves the operand count to parse_mem_ins
instruction_lw_any_count(ins, s) ==
    IF ~parse_mem_ins_ok(ins) THEN Raise(s, "ParseException")
    ELSE LET p == parse_mem_ins(ins, s)
             a == unsigned_value(p.addr)
         IN IF ~ASSERT_WORD_ALIGNED(a) THEN Raise(s, "MemoryAlignmentException")
            ELSE IF ~Mapped(a, 4) THEN Raise(s, "MemoryAccessException")
            ELSE [s EXCEPT !.regs = RegSet(s.regs, p.rd,
                     WordOfBytes(ByteAt(s.mem, a.low), ByteAt(s.mem, a.low + 1),
                                 ByteAt(s.mem, a.low + 2), ByteAt(s.mem, a.low + 3)))]

instruction_lw(ins, s) ==
    IF ~ASSERT_LEN(ins.args, 3) THEN Raise(s, "ParseException")
    ELSE LET p == parse_mem_ins(ins, s)
             a == unsigned_value(p.addr)
         IN IF ~ASSERT_WORD_ALIGNED(a) THEN Raise(s, "MemoryAlignmentException")
            ELSE IF ~Mapped(a, 4) THEN Raise(s, "MemoryAccessException")
            ELSE [s EXCEPT !.regs = RegSet(s.regs, p.rd,
                     WordOfBytes(ByteAt(s.mem, a.low), ByteAt(s.mem, a.low + 1),
                                 ByteAt(s.mem, a.low + 2), ByteAt(s.mem, a.low + 3)))]

instruction_sb(ins, s) ==
    IF ~parse_mem_ins_ok(ins) THEN Raise(s, "ParseException")
    ELSE LET p == parse_mem_ins(ins, s)
             a == unsigned_value(p.addr)
         IN IF ~Mapped(a, 1) THEN Raise(s, "MemoryAccessException")
            ELSE [s EXCEPT !.mem = MemWrite(s.mem, a.low, 1, RegGet(s.regs, p.rd))]

instruction_sh(ins, s) ==
    IF ~parse_mem_ins_ok(ins) THEN Raise(s, "ParseException")
    ELSE LET p == parse_mem_ins(ins, s)
             a == unsigned_value(p.addr)
         IN IF ~Mapped(a, 2) THEN Raise(s, "MemoryAccessException")
            ELSE [s EXCEPT !.mem = MemWrite(s.mem, a.low, 2, RegGet(s.regs, p.rd))]

\* a variant of sw that writes the word before it checks the alignment
instruction_sw_write_first(ins, s) ==
    IF ~ASSERT_LEN(ins.args, 3) THEN Raise(s, "ParseException")
    ELSE LET p == parse_mem_ins(ins, s)
             a == unsigned_value(p.addr)
             written == IF Mapped(a, 4)
                        THEN [s EXCEPT !.mem = MemWrite(s.mem, a.low, 4, RegGet(s.regs, p.rd))]
                        ELSE s
         IN IF ~ASSERT_WORD_ALIGNED(a) THEN Raise(written, "MemoryAlignmentException")
            ELSE IF ~Mapped(a, 4) THEN Raise(s, "MemoryAccessException")
            ELSE written

instruction_sw(ins, s) ==
    IF ~ASSERT_LEN(ins.args, 3) THEN Raise(s, "ParseException")
    ELSE LET p == parse_mem_ins(ins, s)
             a == unsigned_value(p.addr)
         IN IF ~ASSERT_WORD_ALIGNED(a) THEN Raise(s, "MemoryAlignmentException")
            ELSE IF ~Mapped(a, 4) THEN Raise(s, "MemoryAccessException")
            ELSE [s EXCEPT !.mem = MemWrite(s.mem, a.low, 4, RegGet(s.regs, p.rd))]

\* a variant of the branch comparisons in which bltu compares signed values
BranchCond_signed_bltu(name, rs1, rs2) ==
    CASE name = "beq" -> rs1 = rs2
      [] name = "bne" -> rs1 # rs2
      [] name = "blt" -> rs1 < rs2
      [] name = "bge" -> rs1 >= rs2
      [] name = "bltu" -> rs1 < rs2
      [] name = "bgeu" -> ~UInt32Less(rs1, rs2)
      [] name = "bgt" -> rs1 > rs2
      [] name = "ble" -> rs1 <= rs2
      [] name = "bgtu" -> UInt32Less(rs2, rs1)
      [] name = "bleu" -> ~UInt32Less(rs2, rs1)

\* the comparison each three-operand branch makes on (rs1, rs2)
BranchCond(name, rs1, rs2) ==
    CASE name = "beq" -> rs1 = rs2
      [] name = "bne" -> rs1 # rs2
      [] name = "blt" -> rs1 < rs2
      [] name = "bge" -> rs1 >= rs2
      [] name = "bltu" -> UInt32Less(rs1, rs2)
      [] name = "bgeu" -> ~UInt32Less(rs1, rs2)
      [] name = "bgt" -> rs1 > rs2
      [] name = "ble" -> rs1 <= rs2
      [] name = "bgtu" -> UInt32Less(rs2, rs1)
      [] name = "bleu" -> ~UInt32Less(rs2, rs1)

\* instruction_beq, bne, blt, bge, bltu, bgeu, bgt, ble, bgtu, bleu
instruction_branch(ins, s) ==
    IF ~ASSERT_LEN(ins.args, 3) THEN Raise(s, "ParseException")
    ELSE LET p == parse_rs_rs_imm(ins, s)
         IN IF BranchCond(ins.name, p.rs1, p.rs2)
            THEN [s EXCEPT !.pc = unsigned_value(p.dst)]
            ELSE s

\* the comparison each zero pseudo-branch makes on rs1
BranchZeroCond(name, rs1) ==
    CASE name = "beqz" -> rs1 = 0
      [] name = "bnez" -> rs1 # 0
      [] name = "bltz" -> rs1 < 0
      [] name = "bgtz" -> rs1 > 0
      [] name = "bgez" -> rs1 >= 0
      [] name = "blez" -> rs1 <= 0

\* instruction_beqz, bnez, bltz, bgtz, bgez, blez
instruction_branchz(ins, s) ==
    IF ~ASSERT_LEN(ins.args, 2) THEN Raise(s, "ParseException")
    ELSE LET rs1 == get_reg(ins, 0)
             dst == get_imm(ins, 1)
         IN IF BranchZeroCond(ins.name, RegGet(s.regs, rs1))
            THEN [s EXCEPT !.pc = Wide(dst)]
            ELSE s

instruction_j(ins, s) ==
    IF ~ASSERT_LEN(ins.args, 1) THEN Raise(s, "ParseException")
    ELSE [s EXCEPT !.pc = Wide(get_imm(ins, 0))]

instruction_jal(ins, s) ==
    IF Len(ins.args) = 1
    THEN [s EXCEPT !.regs = RegSet(s.regs, "ra", Int32OfWide(s.pc)), !.pc = Wide(get_imm(ins, 0))]
    ELSE IF ~ASSERT_LEN(ins.args, 2) THEN Raise(s, "ParseException")
    ELSE [s EXCEPT !.regs = RegSet(s.regs, get_reg(ins, 0), Int32OfWide(s.pc)),
                   !.pc = Wide(get_imm(ins, 1))]

instruction_call(ins, s) ==
    IF ~ASSERT_LEN(ins.args, 1) THEN Raise(s, "ParseException")
    ELSE [s EXCEPT !.regs = RegSet(s.regs, "ra", Int32OfWide(s.pc)), !.pc = Wide(get_imm(ins, 0))]

instruction_jr(ins, s) ==
    IF ~ASSERT_LEN(ins.args, 1) THEN Raise(s, "ParseException")
    ELSE [s EXCEPT !.pc = Wide(AndFFFFFFFE(RegGet(s.regs, get_reg(ins, 0))))]

\* a variant of jalr that writes the link register before reading the target
instruction_jalr_link_first(ins, s) ==
    IF Len(ins.args) = 1
    THEN LET linked == RegSet(s.regs, "ra", Int32OfWide(s.pc))
         IN [s EXCEPT !.regs = linked, !.pc = Wide(RegGet(linked, get_reg(ins, 0)))]
    ELSE IF ~parse_mem_ins_ok(ins) THEN Raise(s, "ParseException")
    ELSE LET p == parse_mem_ins(ins, s)
         IN [s EXCEPT !.regs = RegSet(s.regs, p.rd, Int32OfWide(s.pc)),
                        !.pc = Wide(p.addr)]

instruction_jalr(ins, s) ==
    IF Len(ins.args) = 1
    THEN LET addr == RegGet(s.regs, get_reg(ins, 0))
         IN [s EXCEPT !.regs = RegSet(s.regs, "ra", Int32OfWide(s.pc)), !.pc = Wide(addr)]
    ELSE IF ~parse_mem_ins_ok(ins) THEN Raise(s, "ParseException")
    ELSE LET p == parse_mem_ins(ins, s)
         IN [s EXCEPT !.regs = RegSet(s.regs, p.rd, Int32OfWide(s.pc)),
                        !.pc = Wide(p.addr)]

instruction_ret(ins, s) ==
    IF ~ASSERT_LEN(ins.args, 0) THEN Raise(s, "ParseException")
    ELSE [s EXCEPT !.pc = Wide(RegGet(s.regs, "ra"))]

instruction_sbreak(ins, s) ==
    IF ~ASSERT_LEN(ins.args, 0) THEN Raise(s, "ParseException")
    ELSE Raise(s, "LaunchDebuggerException")

instruction_ebreak(ins, s) == instruction_sbreak(ins, s)

instruction_nop(ins, s) ==
    IF ~ASSERT_LEN(ins.args, 0) THEN Raise(s, "ParseException")
    ELSE s

instruction_li(ins, s) ==
    IF ~ASSERT_LEN(ins.args, 2) THEN Raise(s, "ParseException")
    ELSE [s EXCEPT !.regs = RegSet(s.regs, get_reg(ins, 0), get_imm(ins, 1))]

instruction_la(ins, s) == instruction_li(ins, s)

instruction_mv(ins, s) ==
    IF ~ASSERT_LEN(ins.args, 2) THEN Raise(s, "ParseException")
    ELSE [s EXCEPT !.regs = RegSet(s.regs, get_reg(ins, 0),
                                   RegGet(s.regs, get_reg(ins, 1)))]

instruction_neg(ins, s) ==
    IF ~ASSERT_LEN(ins.args, 2) THEN Raise(s, "ParseException")
    ELSE [s EXCEPT !.regs = RegSet(s.regs, get_reg(ins, 0),
                                   Int32Sub(0, RegGet(s.regs, get_reg(ins, 1))))]

instruction_not(ins, s) ==
    IF ~ASSERT_LEN(ins.args, 2) THEN Raise(s, "ParseException")
    ELSE [s EXCEPT !.regs = RegSet(s.regs, get_reg(ins, 0),
                                   BitXor(-1, RegGet(s.regs, get_reg(ins, 1))))]

\* a variant of the shift amount that is not masked
ShiftAmount_unmasked(amount) == amount

\* the amount of a shift: amount & 0b11111
ShiftAmount(amount) == BitAnd(amount, 31)

\* the value the register-register handlers compute from (rs1, rs2), and the
\* register-immediate handlers from (rs1, imm)
AluOp(name, rs1, rs2) ==
    CASE name \in {"sll", "slli"} -> ShiftLeft(rs1, ShiftAmount(rs2))
      [] name \in {"srl", "srli"} -> ShiftRightLogical(rs1, ShiftAmount(rs2))
      [] name \in {"sra", "srai"} -> ShiftRightArith(rs1, ShiftAmount(rs2))
      [] name \in {"add", "addi"} -> Int32Add(rs1, rs2)
      [] name = "sub" -> Int32Sub(rs1, rs2)
      [] name \in {"xor", "xori"} -> BitXor(rs1, rs2)
      [] name \in {"or", "ori"} -> BitOr(rs1, rs2)
      [] name \in {"and", "andi"} -> BitAnd(rs1, rs2)
      [] name \in {"slt", "slti"} -> IF rs1 < rs2 THEN 1 ELSE 0
      [] name \in {"sltu", "sltiu"} -> IF UInt32Less(rs1, rs2) THEN 1 ELSE 0

AluRegister == {"sll", "srl", "sra", "add", "sub", "xor", "or", "and", "slt", "sltu"}
AluImmediate ==
    {"slli", "srli", "srai", "addi", "xori", "ori", "andi", "slti", "sltiu"}

\* instruction_sll, srl, sra, add, sub, xor, or, and, slt, sltu
instruction_alu(ins, s) ==
    IF ~ASSERT_LEN(ins.args, 3) THEN Raise(s, "ParseException")
    ELSE LET p == parse_rd_rs_rs(ins, s)
         IN [s EXCEPT !.regs = RegSet(s.regs, p.rd, AluOp(ins.name, p.rs1, p.rs2))]

\* instruction_slli, srli, srai, addi, xori, ori, andi, slti, sltiu
instruction_alui(ins, s) ==
    IF ~ASSERT_LEN(ins.args, 3) THEN Raise(s, "ParseException")
    ELSE LET p == parse_rd_rs_imm(ins, s)
         IN [s EXCEPT !.regs = RegSet(s.regs, p.rd, AluOp(ins.name, p.rs1, p.imm))]

\* a variant of lui that takes its immediate as a signed 20-bit value
instruction_lui_signed(ins, s) ==
    IF ~ASSERT_LEN(ins.args, 2) THEN Raise(s, "ParseException")
    ELSE IF ~ASSERT_IMM_LEN(get_imm(ins, 1), 20, TRUE) THEN Raise(s, "ParseException")
    ELSE [s EXCEPT !.regs = RegSet(s.regs, get_reg(ins, 0), Shl12(get_imm(ins, 1)))]

instruction_lui(ins, s) ==
    IF ~ASSERT_LEN(ins.args, 2) THEN Raise(s, "ParseException")
    ELSE IF ~ASSERT_IMM_LEN(get_imm(ins, 1), 20, FALSE) THEN Raise(s, "ParseException")
    ELSE [s EXCEPT !.regs = RegSet(s.regs, get_reg(ins, 0), Shl12(get_imm(ins, 1)))]

\* a variant of auipc that adds the address of the auipc instruction itself
instruction_auipc_own_address(ins, s) ==
    IF ~ASSERT_LEN(ins.args, 2) THEN Raise(s, "ParseException")
    ELSE [s EXCEPT !.regs = RegSet(s.regs, get_reg(ins, 0),
                        Int32Sub(Int32Add(Shl12(get_imm(ins, 1)), Int32OfWide(s.pc)),
                                 INS_XLEN))]

\* imm.signed() + self.pc, with self.pc already advanced by step
instruction_auipc(ins, s) ==
    IF ~ASSERT_LEN(ins.args, 2) THEN Raise(s, "ParseException")
    ELSE [s EXCEPT !.regs = RegSet(s.regs, get_reg(ins, 0),
                        Int32Add(Shl12(get_imm(ins, 1)), Int32OfWide(s.pc)))]

\* the syscall number of exit
SysExit == 93

\* SyscallInterface.handle_syscall: exit halts the engine with the exit code held
\* in a0; the other syscalls have their effect on the host
handle_syscall(id, s) ==
    IF id = SysExit
    THEN [s EXCEPT !.exit = [requested |-> TRUE, code |-> RegGet(s.regs, "a0")]]
    ELSE s

instruction_scall(ins, s) ==
    IF ~ASSERT_LEN(ins.args, 0) THEN Raise(s, "ParseException")
    ELSE handle_syscall(RegGet(s.regs, "utilreg"), s)

instruction_ecall(ins, s) == instruction_scall(ins, s)

\* instruction_startlog, stoplog, csbreak
instruction_marker(ins, s) ==
    IF ~ASSERT_LEN(ins.args, 0) THEN Raise(s, "ParseException")
    ELSE s

Markers == {"startlog", "stoplog", "csbreak"}
Branches == {"beq", "bne", "blt", "bge", "bltu", "bgeu", "bgt", "ble", "bgtu", "bleu"}
BranchesZero == {"beqz", "bnez", "bltz", "bgtz", "bgez", "blez"}

\* CPU.run_instruction: dispatch on the mnemonic
run_instruction(ins, s) ==
    CASE ins.name = "lb" -> instruction_lb(ins, s)
      [] ins.name = "lh" -> instruction_lh(ins, s)
      [] ins.name = "lw" -> instruction_lw(ins, s)
      [] ins.name = "lbu" -> instruction_lbu(ins, s)
      [] ins.name = "lhu" -> instruction_lhu(ins, s)
      [] ins.name = "sb" -> instruction_sb(ins, s)
      [] ins.name = "sh" -> instruction_sh(ins, s)
      [] ins.name = "sw" -> instruction_sw(ins, s)
      [] ins.name \in AluRegister -> instruction_alu(ins, s)
      [] ins.name \in AluImmediate -> instruction_alui(ins, s)
      [] ins.name = "lui" -> instruction_lui(ins, s)
      [] ins.name = "auipc" -> instruction_auipc(ins, s)
      [] ins.name \in Branches -> instruction_branch(ins, s)
      [] ins.name \in BranchesZero -> instruction_branchz(ins, s)
      [] ins.name = "j" -> instruction_j(ins, s)
      [] ins.name = "jal" -> instruction_jal(ins, s)
      [] ins.name = "call" -> instruction_call(ins, s)
      [] ins.name = "jr" -> instruction_jr(ins, s)
      [] ins.name = "jalr" -> instruction_jalr(ins, s)
      [] ins.name = "ret" -> instruction_ret(ins, s)
      [] ins.name = "sbreak" -> instruction_sbreak(ins, s)
      [] ins.name = "ebreak" -> instruction_ebreak(ins, s)
      [] ins.name = "nop" -> instruction_nop(ins, s)
      [] ins.name = "li" -> instruction_li(ins, s)
      [] ins.name = "la" -> instruction_la(ins, s)
      [] ins.name = "mv" -> instruction_mv(ins, s)
      [] ins.name = "neg" -> instruction_neg(ins, s)
      [] ins.name = "not" -> instruction_not(ins, s)
      [] ins.name = "ecall" -> instruction_ecall(ins, s)
      [] ins.name = "scall" -> instruction_scall(ins, s)
      [] ins.name \in Markers -> instruction_marker(ins, s)
      [] OTHER -> Raise(s, "UnimplementedInstruction")

(***************************************************************************)
(* The inputs of the model: the instructions a loaded program may hold.    *)
(***************************************************************************)
StackSizes == {DefaultStackSize, 2 * DefaultStackSize}
\* the run configurations: a quiet one with the default stack, a verbose one
Configs ==
    {[stack_size |-> DefaultStackSize, verbosity |-> 0],
     [stack_size |-> 2 * DefaultStackSize, verbosity |-> 1]}
LiImms == {-1, 0, 5}
\* label addresses: the first instruction and the third
Entry == 0
Targets == {Entry, 2 * INS_XLEN}
MemOffsets == {-4, -3}

Ins(n, a) == [name |-> n, args |-> a]
NoIns == Ins("none", <<>>)

MemInstructions ==
    {Ins(n, <<R("a0"), R("sp"), I(off)>>) :
        n \in {"lb", "lw", "sb", "sw"}, off \in MemOffsets}
        \cup {Ins(n, <<R("a0"), R("a1"), I(-3)>>) : n \in {"lb", "lw", "sb", "sw"}}
BranchInstructions ==
    {Ins(n, <<R("a0"), R("a1"), I(t)>>) :
        n \in {"beq", "bne", "blt", "bge", "bltu", "bgeu"}, t \in Targets}
        \cup {Ins(n, <<R("a0"), R("a1"), I(Entry)>>) :
                 n \in {"bgt", "ble", "bgtu", "bleu"}}
        \cup {Ins(n, <<R("a0"), I(Entry)>>) : n \in BranchesZero}
JumpInstructions ==
    {Ins(n, <<I(2 * INS_XLEN)>>) : n \in {"j", "jal", "call"}}
        \cup {Ins("jal", <<R(rd), I(2 * INS_XLEN)>>) : rd \in {"a0", "zero"}}
        \cup {Ins(n, <<R(rs)>>) : n \in {"jr", "jalr"}, rs \in {"a0", "ra"}}
        \cup {Ins("jalr", <<R(rd), R("a0"), I(off)>>) : rd \in {"a1", "zero"}, off \in {0, 1}}
        \cup {Ins("ret", <<>>)}
OtherInstructions ==
    {Ins("li", <<R(rd), I(imm)>>) : rd \in {"a0", "a1", "sp"}, imm \in LiImms}
        \cup {Ins(n, <<>>) : n \in {"sbreak", "ebreak", "nop", "fence"}}
\* operand counts the handlers reject
BadArity ==
    {Ins(n, <<R("a0"), R("sp")>>) : n \in {"lw", "sw", "beq"}}
        \cup {Ins("nop", <<R("a0")>>), Ins("ret", <<R("a0")>>)}

Instructions ==
    MemInstructions \cup BranchInstructions \cup JumpInstructions
        \cup OtherInstructions \cup BadArity

(***************************************************************************)
(* The inputs of the single-step model: every mnemonic of RV32I, on        *)
(* register values and immediates at the edges of the 32-bit range.        *)
(***************************************************************************)
RegValues == {MinInt32, -1, 0, 5, 33}
ShiftImms == {-1, 0, 1, 31, 32, 33}
UpperImms == {-1, 0, 1, 524288, 1048575, 1048576}
AluImms == {-1, 5}
JumpTargets == {2 * INS_XLEN, -4}

MemNames == {"lb", "lh", "lw", "lbu", "lhu", "sb", "sh", "sw"}
Shifts == {"sll", "srl", "sra"}
ShiftsImmediate == {"slli", "srli", "srai"}
NoOperand ==
    {"ret", "ecall", "scall", "sbreak", "ebreak", "nop"} \cup Markers

\* the operand counts each mnemonic is written with
OperandCounts(name) ==
    CASE name \in {"lw", "sw"} -> {3}
      [] name \in MemNames \ {"lw", "sw"} -> {2, 3}
      [] name \in AluRegister \cup AluImmediate \cup Branches -> {3}
      [] name \in BranchesZero \cup {"lui", "auipc", "li", "la", "mv", "neg", "not"} -> {2}
      [] name \in {"j", "call", "jr"} -> {1}
      [] name = "jal" -> {1, 2}
      [] name = "jalr" -> {1, 2, 3}
      [] name \in NoOperand -> {0}

Mnemonics ==
    MemNames \cup AluRegister \cup AluImmediate \cup Branches \cup BranchesZero
        \cup {"lui", "auipc", "li", "la", "mv", "neg", "not"}
        \cup {"j", "call", "jr", "jal", "jalr"} \cup NoOperand

RV32IMem ==
    {Ins(n, <<R("a0"), R("sp"), I(off)>>) : n \in MemNames, off \in MemOffsets}
        \cup {Ins(n, <<R("a0"), R("a1"), I(-3)>>) : n \in MemNames}
        \cup {Ins(n, <<R("a0"), M(-4, "sp")>>) : n \in MemNames}
RV32IAlu ==
    {Ins(n, <<R("a0"), R("a0"), R("a1")>>) : n \in AluRegister}
        \cup {Ins(n, <<R("a0"), R("a0"), I(imm)>>) :
                 n \in ShiftsImmediate, imm \in ShiftImms}
        \cup {Ins(n, <<R("a0"), R("a0"), I(imm)>>) :
                 n \in AluImmediate \ ShiftsImmediate, imm \in AluImms}
        \cup {Ins(n, <<R("a0"), I(imm)>>) : n \in {"lui", "auipc"}, imm \in UpperImms}
        \cup {Ins(n, <<R("a0"), R("a1")>>) : n \in {"mv", "neg", "not"}}
        \cup {Ins(n, <<R("a0"), I(imm)>>) : n \in {"li", "la"}, imm \in LiImms}
RV32IBranch ==
    {Ins(n, <<R("a0"), R("a1"), I(t)>>) : n \in Branches, t \in Targets \cup {-4}}
        \cup {Ins(n, <<R("a0"), I(t)>>) : n \in BranchesZero, t \in Targets \cup {-4}}
RV32IJump ==
    {Ins(n, <<I(t)>>) : n \in {"j", "jal", "call"}, t \in JumpTargets}
        \cup {Ins("jal", <<R(rd), I(2 * INS_XLEN)>>) : rd \in {"a0", "zero"}}
        \cup {Ins(n, <<R(rs)>>) : n \in {"jr", "jalr"}, rs \in {"a0", "ra"}}
        \cup {Ins("jalr", <<R(rd), R("a0"), I(off)>>) : rd \in {"a1", "zero"}, off \in {0, 1}}
        \cup {Ins("jalr", <<R("a1"), M(0, "a0")>>)}
RV32INoOperand == {Ins(n, <<>>) : n \in NoOperand \cup {"fence"}}

\* k operands, for the operand counts a mnemonic is not written with
Operands(k) == [i \in 1..k |-> R("a0")]
RV32IBadArity ==
    {Ins(n, Operands(k)) : n \in Mnemonics, k \in 0..4} \ 
        {i \in {Ins(n, Operands(k)) : n \in Mnemonics, k \in 0..4} :
            Len(i.args) \in OperandCounts(i.name)}

RV32IInstructions ==
    RV32IMem \cup RV32IAlu \cup RV32IBranch \cup RV32IJump \cup RV32INoOperand
        \cup RV32IBadArity

(***************************************************************************)
(* UserModeCPU.                                                            *)
(***************************************************************************)
Top == IF callstack = <<>> THEN "driver" ELSE callstack[Len(callstack)]
Pop == SubSeq(callstack, 1, Len(callstack) - 1)

Observed(op, kind, ins, exc, raised, launched) ==
    [op |-> op, kind |-> kind, ins |-> ins, exc |-> exc,
     raised |-> raised, launched |-> launched]

\* get_syscall_symbols(): the name and number of every system call
SyscallSymbols ==
    [n \in {"SCALL_READ", "SCALL_WRITE", "SCALL_EXIT"} |->
        CASE n = "SCALL_READ" -> 63
          [] n = "SCALL_WRITE" -> 64
          [] n = "SCALL_EXIT" -> SysExit]

\* a.update(b) of two dictionaries: the entries of b replace those of a
Update(a, b) ==
    [n \in DOMAIN a \cup DOMAIN b |-> IF n \in DOMAIN b THEN b[n] ELSE a[n]]

\* a variant of the merge in which the system calls' entries replace the user's
MergeSymbols_syscalls_win(user) == Update(user, SyscallSymbols)

\* __init__: syscall_symbols.update(global_symbols), then
\* global_symbols.update(syscall_symbols)
MergeSymbols(user) == Update(user, Update(SyscallSymbols, user))

\* no call of ASSERT_IMM_LEN yet, no call into the tokenizer yet
NoImmLen == [val |-> 0, nbits |-> 0, signed |-> FALSE, raised |-> FALSE, called |-> FALSE]
NoTok == [fn |-> "none", input |-> <<>>, parts |-> <<>>, tokens |-> <<>>,
          raised |-> FALSE]

Init ==
    /\ global_symbols = MergeSymbols(<<>>)
    /\ imm_len = NoImmLen
    /\ tok = NoTok
    /\ pc = Wide(0)
    /\ regs = [r \in RegNames |-> 0]
    /\ halted = FALSE
    /\ cycle = 0
    /\ exit_code = 0
    /\ debugger_active = FALSE
    /\ sections = {}
    /\ mem = <<>>
    /\ \E conf \in Configs :
          stack_size = conf.stack_size /\ verbosity = conf.verbosity
    /\ faulted = FALSE
    /\ callstack = <<>>
    /\ last = Observed("init", "none", NoIns, "none", FALSE, FALSE)

InSetup == last.op \in {"init", "load_program", "load_section", "setup_stack"}

\* CPU.load_program and CPU.launch: the program's section is placed and entered
\* (the program is loaded before the stack is set up)
LoadProgram ==
    /\ last.op = "init"
    /\ LET base == PlaceBase(sections, 0, ProgLen * INS_XLEN, FALSE)
       IN /\ sections' = sections \cup
                 {[name |-> ".text", base |-> base, size |-> ProgLen * INS_XLEN,
                   code |-> TRUE]}
          /\ pc' = Wide(base)
    /\ last' = Observed("load_program", "none", NoIns, "none", FALSE, FALSE)
    /\ UNCHANGED <<global_symbols, imm_len, tok>>
    /\ UNCHANGED <<regs, halted, cycle, exit_code, debugger_active, mem,
                   stack_size, verbosity, faulted, callstack>>

\* the three placements of setup_stack, in order; -1 marks a failed one
SetupPlacement(secs, size) ==
    LET sbase == PlaceBase(secs, 0, size, FALSE)
        s1 == IF sbase < 0 THEN secs
              ELSE secs \cup {[name |-> ".stack", base |-> sbase, size |-> size,
                               code |-> FALSE]}
        gbase == IF sbase < 0 THEN -1
                 ELSE PlaceBase(s1, GpioBase, PeripheralSize, TRUE)
        s2 == IF gbase < 0 THEN s1
              ELSE s1 \cup {[name |-> ".gpio", base |-> gbase,
                             size |-> PeripheralSize, code |-> FALSE]}
        ibase == IF gbase < 0 THEN -1
                 ELSE PlaceBase(s2, IoBase, PeripheralSize, TRUE)
        s3 == IF ibase < 0 THEN s2
              ELSE s2 \cup {[name |-> ".io", base |-> ibase,
                             size |-> PeripheralSize, code |-> FALSE]}
    IN [stack |-> sbase, gpio |-> gbase, io |-> ibase, sections |-> s3]

\* a variant of setup_stack that leaves sp at the base of the stack section
SetupStack_sp_at_base(size) ==
    /\ InSetup
    /\ \A sec \in sections : sec.name # ".stack"
    /\ LET p == SetupPlacement(sections, size)
       IN /\ sections' = p.sections
          /\ regs' = IF p.stack < 0 THEN regs
                     ELSE RegSet(regs, "sp", p.stack)
          /\ last' = Observed("setup_stack",
                              IF p.io >= 0 THEN "true" ELSE "false",
                              NoIns, "none", FALSE, FALSE)
    /\ UNCHANGED <<global_symbols, imm_len, tok>>
    /\ UNCHANGED <<pc, halted, cycle, exit_code, debugger_active, mem,
                   stack_size, verbosity, faulted, callstack>>

\* a variant of setup_stack that reports success once the stack is placed
SetupStack_true_after_stack(size) ==
    /\ InSetup
    /\ \A sec \in sections : sec.name # ".stack"
    /\ LET p == SetupPlacement(sections, size)
       IN /\ sections' = p.sections
          /\ regs' = IF p.stack < 0 THEN regs
                     ELSE RegSet(regs, "sp", p.stack + size)
          /\ last' = Observed("setup_stack",
                              IF p.stack >= 0 THEN "true" ELSE "false",
                              NoIns, "none", FALSE, FALSE)
    /\ UNCHANGED <<global_symbols, imm_len, tok>>
    /\ UNCHANGED <<pc, halted, cycle, exit_code, debugger_active, mem,
                   stack_size, verbosity, faulted, callstack>>

\* UserModeCPU.setup_stack
SetupStack(size) ==
    /\ InSetup
    /\ \A sec \in sections : sec.name # ".stack"
    /\ LET p == SetupPlacement(sections, size)
       IN /\ sections' = p.sections
          /\ regs' = IF p.stack < 0 THEN regs
                     ELSE RegSet(regs, "sp", p.stack + size)
          /\ last' = Observed("setup_stack",
                              IF p.io >= 0 THEN "true" ELSE "false",
                              NoIns, "none", FALSE, FALSE)
    /\ UNCHANGED <<global_symbols, imm_len, tok>>
    /\ UNCHANGED <<pc, halted, cycle, exit_code, debugger_active, mem,
                   stack_size, verbosity, faulted, callstack>>

\* MMU.read_ins succeeds: pc addresses an instruction of a code section
Fetchable(addr) ==
    /\ addr.top = 0
    /\ \E sec \in sections :
        /\ sec.code
        /\ sec.base <= addr.low /\ addr.low + INS_XLEN <= SecEnd(sec)
        /\ (addr.low - sec.base) % INS_XLEN = 0

\* the stack guard of step
StackGuard == RegGet(regs, "sp") < stack_size - GuardBand

\* a variant of the try block that evaluates the stack guard after the fetch
TryStep_guard_after_fetch(ins) ==
    IF ~Fetchable(pc)
    THEN [kind |-> "fetch", cycle |-> cycle + 1,
          s |-> Raise(Machine(pc, regs, mem), "MemoryAccessException")]
    ELSE IF StackGuard
    THEN [kind |-> "guard", cycle |-> cycle + 1,
          s |-> Raise(Machine(WideAdd(pc, INS_XLEN), regs, mem), "StackOverflowException")]
    ELSE [kind |-> "executed", cycle |-> cycle + 1,
          s |-> run_instruction(ins, Machine(WideAdd(pc, INS_XLEN), regs, mem))]

\* a variant of the try block that counts the cycle after the fetch
TryStep_counts_after_fetch(ins) ==
    IF StackGuard
    THEN [kind |-> "guard", cycle |-> cycle,
          s |-> Raise(Machine(pc, regs, mem), "StackOverflowException")]
    ELSE IF ~Fetchable(pc)
    THEN [kind |-> "fetch", cycle |-> cycle,
          s |-> Raise(Machine(pc, regs, mem), "MemoryAccessException")]
    ELSE [kind |-> "executed", cycle |-> cycle + 1,
          s |-> run_instruction(ins, Machine(WideAdd(pc, INS_XLEN), regs, mem))]

\* the try block of step, from the guard to the handler's return
TryStep(ins) ==
    IF StackGuard
    THEN [kind |-> "guard", cycle |-> cycle,
          s |-> Raise(Machine(pc, regs, mem), "StackOverflowException")]
    ELSE IF ~Fetchable(pc)
    THEN [kind |-> "fetch", cycle |-> cycle + 1,
          s |-> Raise(Machine(pc, regs, mem), "MemoryAccessException")]
    ELSE [kind |-> "executed", cycle |-> cycle + 1,
          s |-> run_instruction(ins, Machine(WideAdd(pc, INS_XLEN), regs, mem))]

\* a variant of step without the early return on a halted engine
StepHalted_executes ==
    /\ Top \in {"driver", "debug"}
    /\ halted
    /\ cycle < MaxCycle
    /\ cycle' = cycle + 1
    /\ pc' = WideAdd(pc, INS_XLEN)
    /\ last' = Observed("step", "halted", NoIns, "none", FALSE, FALSE)
    /\ UNCHANGED <<global_symbols, imm_len, tok>>
    /\ UNCHANGED <<regs, halted, exit_code, debugger_active,
                   sections, mem, stack_size, verbosity, faulted, callstack>>

\* UserModeCPU.step on a halted engine: the exit code is reported
StepHalted ==
    /\ Top \in {"driver", "debug"}
    /\ halted
    /\ last' = Observed("step", "halted", NoIns, "none", FALSE, FALSE)
    /\ UNCHANGED <<global_symbols, imm_len, tok>>
    /\ UNCHANGED <<pc, regs, halted, cycle, exit_code, debugger_active,
                   sections, mem, stack_size, verbosity, faulted, callstack>>

\* a variant of the except clause that lets an alignment fault pass
HaltsOn_ignores_alignment(exc) ==
    exc \notin {"none", "LaunchDebuggerException", "MemoryAlignmentException"}

\* a variant of the except clause that treats the debug trap as a fault
HaltsOn_trap_too(exc) == exc # "none"

\* the except clause of step: every fault but the debug trap halts the engine
HaltsOn(exc) == exc \notin {"none", "LaunchDebuggerException"}

\* the debug trap is re-raised to the caller of step when a debugger is active
PropagatesTrap(exc, active) == exc = "LaunchDebuggerException" /\ active

\* a variant that launches a debug session whether or not one is active
LaunchesDebugger_always(exc, active) == exc = "LaunchDebuggerException"

\* otherwise the debug trap launches a debug session
LaunchesDebugger(exc, active) == exc = "LaunchDebuggerException" /\ ~active

\* a variant of step that reports a fault through the exit code
ExitCodeAfter_fault_code(s, code) ==
    IF s.exit.requested THEN s.exit.code
    ELSE IF HaltsOn(s.exc) THEN 1
    ELSE code

\* the exit code after a step: step itself never assigns it, the syscall does
ExitCodeAfter(s, code) == IF s.exit.requested THEN s.exit.code ELSE code

\* UserModeCPU.step on a running engine; ins is the instruction stored at pc
Step(ins) ==
    /\ ~halted
    /\ Top \in {"driver", "debug", "run"}
    /\ cycle < MaxCycle
    /\ LET t == TryStep(ins)
           fetched == IF t.kind = "executed" THEN ins ELSE NoIns
           propagate == PropagatesTrap(t.s.exc, debugger_active)
           launch == LaunchesDebugger(t.s.exc, debugger_active)
       IN /\ t.kind # "executed" => ins = NoIns
          /\ t.kind = "executed" => ins \in Instructions \cup RV32IInstructions
          /\ cycle' = t.cycle
          /\ pc' = t.s.pc
          /\ regs' = t.s.regs
          /\ mem' = t.s.mem
          /\ halted' = (HaltsOn(t.s.exc) \/ t.s.exit.requested)
          /\ exit_code' = ExitCodeAfter(t.s, exit_code)
          /\ faulted' = (faulted \/ HaltsOn(t.s.exc))
          /\ debugger_active' = (debugger_active \/ launch)
          /\ callstack' =
                IF launch THEN Append(callstack, "debug")
                ELSE IF propagate /\ Top = "run" THEN Pop
                ELSE callstack
          /\ last' = Observed("step", t.kind, fetched, t.s.exc, propagate, launch)
    /\ UNCHANGED <<global_symbols, imm_len, tok>>
    /\ UNCHANGED <<sections, stack_size, verbosity>>

\* UserModeCPU.run is entered by the driver or by the debugger
RunCall ==
    /\ Top \in {"driver", "debug"}
    /\ callstack' = Append(callstack, "run")
    /\ last' = Observed("run", "call", NoIns, "none", FALSE, FALSE)
    /\ UNCHANGED <<global_symbols, imm_len, tok>>
    /\ UNCHANGED <<pc, regs, halted, cycle, exit_code, debugger_active,
                   sections, mem, stack_size, verbosity, faulted>>

\* a variant of run whose loop may end while the engine is running
RunReturn_any_time ==
    /\ Top = "run"
    /\ callstack' = Pop
    /\ last' = Observed("run", IF verbosity > 0 THEN "banner" ELSE "quiet",
                        NoIns, "none", FALSE, FALSE)
    /\ UNCHANGED <<global_symbols, imm_len, tok>>
    /\ UNCHANGED <<pc, regs, halted, cycle, exit_code, debugger_active,
                   sections, mem, stack_size, verbosity, faulted>>

\* the loop of run ends: the engine is halted; the exit code is reported when
\* conf.verbosity > 0
RunReturn ==
    /\ Top = "run"
    /\ halted
    /\ callstack' = Pop
    /\ last' = Observed("run", IF verbosity > 0 THEN "banner" ELSE "quiet",
                        NoIns, "none", FALSE, FALSE)
    /\ UNCHANGED <<global_symbols, imm_len, tok>>
    /\ UNCHANGED <<pc, regs, halted, cycle, exit_code, debugger_active,
                   sections, mem, stack_size, verbosity, faulted>>

\* the debug session launched by step ends and step returns
DebuggerExit ==
    /\ Top = "debug"
    /\ callstack' = Pop
    /\ debugger_active' = FALSE
    /\ last' = Observed("debug", "exit", NoIns, "none", FALSE, FALSE)
    /\ UNCHANGED <<global_symbols, imm_len, tok>>
    /\ UNCHANGED <<pc, regs, halted, cycle, exit_code, sections, mem, stack_size, verbosity, faulted>>

Next ==
    \/ LoadProgram
    \/ SetupStack(stack_size)
    \/ StepHalted
    \/ \E ins \in Instructions \cup {NoIns} : Step(ins)
    \/ RunCall
    \/ RunReturn
    \/ DebuggerExit

Spec == Init /\ [][Next]_vars

(***************************************************************************)
(* The single-step model: a loaded program with its stack set up, the      *)
(* registers holding values earlier instructions left, and one instruction *)
(* of RV32I executed by step, directly or inside run.                      *)
(***************************************************************************)
\* the link register and the syscall number left by earlier instructions
Presets == {[ra |-> 0, utilreg |-> 0], [ra |-> MinInt32, utilreg |-> SysExit]}

InitISA ==
    /\ global_symbols = MergeSymbols(<<>>)
    /\ imm_len = NoImmLen
    /\ tok = NoTok
    /\ \E conf \in Configs :
          stack_size = conf.stack_size /\ verbosity = conf.verbosity
    /\ pc = Wide(0)
    /\ LET text == [name |-> ".text", base |-> 0, size |-> ProgLen * INS_XLEN,
                    code |-> TRUE]
           p == SetupPlacement({text}, stack_size)
       IN /\ sections = p.sections
          /\ \E a \in RegValues, b \in RegValues, preset \in Presets :
                regs = [r \in RegNames |->
                          CASE r = "a0" -> a
                            [] r = "a1" -> b
                            [] r = "sp" -> p.stack + stack_size
                            [] r = "ra" -> preset.ra
                            [] r = "utilreg" -> preset.utilreg
                            [] OTHER -> 0]
    /\ halted = FALSE
    /\ cycle = 0
    /\ exit_code = 0
    /\ debugger_active = FALSE
    /\ mem = <<>>
    /\ faulted = FALSE
    /\ callstack = <<>>
    /\ last = Observed("launch", "none", NoIns, "none", FALSE, FALSE)

\* the first step of the engine
Execute(ins) == cycle = 0 /\ Step(ins)

NextISA ==
    \/ \E ins \in RV32IInstructions : Execute(ins)
    \/ StepHalted
    \/ RunCall
    \/ RunReturn
    \/ DebuggerExit

SpecISA == InitISA /\ [][NextISA]_vars

(***************************************************************************)
(* The set-up model: the loader places the program and data sections at   *)
(* fixed addresses, then the driver sets up the stack.                     *)
(***************************************************************************)
\* fixed bases of data sections: low memory, and inside the two windows
FixedBases == {2 * DefaultStackSize, GpioBase - PeripheralSize \div 2, GpioBase, IoBase}

DataSections == {sec \in sections : sec.name = ".data"}

\* MMU.load_section(sec, fixed_position=True), called by the loader
LoadSection(base, size) ==
    /\ InSetup
    /\ Cardinality(DataSections) < MaxData
    /\ LET at == PlaceBase(sections, base, size, TRUE)
       IN /\ sections' = IF at < 0 THEN sections
                         ELSE sections \cup {[name |-> ".data", base |-> at,
                                               size |-> size, code |-> FALSE]}
          /\ last' = Observed("load_section", IF at >= 0 THEN "true" ELSE "false",
                              NoIns, "none", FALSE, FALSE)
    /\ UNCHANGED <<global_symbols, imm_len, tok>>
    /\ UNCHANGED <<pc, regs, halted, cycle, exit_code, debugger_active, mem,
                   stack_size, verbosity, faulted, callstack>>

NextSetup ==
    \/ LoadProgram
    \/ \E base \in FixedBases : LoadSection(base, PeripheralSize)
    \/ \E size \in StackSizes : SetupStack(size)

SpecSetup == Init /\ [][NextSetup]_vars

(***************************************************************************)
(* Construction: the MMU's symbol table, as the loader may have filled it, *)
(* is merged with the system calls' symbols.                               *)
(***************************************************************************)
SymbolNames == DOMAIN SyscallSymbols \cup {"main", "loop"}
\* addresses of user symbols: the entry point, and the number of exit
SymbolAddresses == {Entry, SysExit}
UserTables == UNION {[names -> SymbolAddresses] : names \in SUBSET SymbolNames}

InitConstruct ==
    /\ global_symbols \in UserTables
    /\ imm_len = NoImmLen
    /\ tok = NoTok
    /\ pc = Wide(0)
    /\ regs = [r \in RegNames |-> 0]
    /\ halted = FALSE
    /\ cycle = 0
    /\ exit_code = 0
    /\ debugger_active = FALSE
    /\ sections = {}
    /\ mem = <<>>
    /\ \E conf \in Configs :
          stack_size = conf.stack_size /\ verbosity = conf.verbosity
    /\ faulted = FALSE
    /\ callstack = <<>>
    /\ last = Observed("new", "none", NoIns, "none", FALSE, FALSE)

\* UserModeCPU.__init__, from the symbol table the MMU comes with
Construct ==
    /\ last.op = "new"
    /\ exit_code' = 0
    /\ global_symbols' = MergeSymbols(global_symbols)
    /\ last' = Observed("init", "none", NoIns, "none", FALSE, FALSE)
    /\ UNCHANGED <<pc, regs, halted, cycle, debugger_active, sections, mem,
                   stack_size, verbosity, faulted, callstack, imm_len, tok>>

NextConstruct == Construct

SpecConstruct == InitConstruct /\ [][NextConstruct]_vars

(***************************************************************************)
(* The tokenizer.  A string is a sequence of characters; a token is a      *)
(* record [type, value].                                                   *)
(***************************************************************************)
UpperCase ==
    <<"A", "B", "C", "D", "E", "F", "G", "H", "I", "J", "K", "L", "M", "N",
      "O", "P", "Q", "R", "S", "T", "U", "V", "W", "X", "Y", "Z">>
LowerCase ==
    <<"a", "b", "c", "d", "e", "f", "g", "h", "i", "j", "k", "l", "m", "n",
      "o", "p", "q", "r", "s", "t", "u", "v", "w", "x", "y", "z">>
Digits == {"0", "1", "2", "3", "4", "5", "6", "7", "8", "9"}
Range(q) == {q[i] : i \in 1..Len(q)}
\* the character classes of MEMORY_ADDRESS_PATTERN; A-z and A-f also span the
\* characters between Z and a (the backslash and the backquote, which no
\* input here holds, are left out)
AtoZ == Range(UpperCase) \cup {"[", "]", "^", "_"}
Class_A_z == AtoZ \cup Range(LowerCase)
Class_A_f == AtoZ \cup {"a", "b", "c", "d", "e", "f"}

\* str.lower
lower(str) ==
    [i \in 1..Len(str) |->
        IF str[i] \in Range(UpperCase)
        THEN LowerCase[CHOOSE k \in 1..Len(UpperCase) : UpperCase[k] = str[i]]
        ELSE str[i]]

\* riscemu.decoder.RISCV_REGS and X_REGS
RISCV_REGS ==
    <<<<"z", "e", "r", "o">>, <<"r", "a">>, <<"s", "p">>, <<"g", "p">>,
      <<"t", "p">>, <<"t", "0">>, <<"t", "1">>, <<"t", "2">>, <<"s", "0">>,
      <<"s", "1">>, <<"a", "0">>, <<"a", "1">>, <<"a", "2">>, <<"a", "3">>,
      <<"a", "4">>, <<"a", "5">>, <<"a", "6">>, <<"a", "7">>, <<"s", "2">>,
      <<"s", "3">>, <<"s", "4">>, <<"s", "5">>, <<"s", "6">>, <<"s", "7">>,
      <<"s", "8">>, <<"s", "9">>, <<"s", "1", "0">>, <<"s", "1", "1">>,
      <<"t", "3">>, <<"t", "4">>, <<"t", "5">>, <<"t", "6">>>>
X_REGS ==
    <<<<"x", "0">>, <<"x", "1">>, <<"x", "2">>, <<"x", "3">>, <<"x", "4">>,
      <<"x", "5">>, <<"x", "6">>, <<"x", "7">>, <<"x", "8">>, <<"x", "9">>,
      <<"x", "1", "0">>, <<"x", "1", "1">>, <<"x", "1", "2">>,
      <<"x", "1", "3">>, <<"x", "1", "4">>, <<"x", "1", "5">>,
      <<"x", "1", "6">>, <<"x", "1", "7">>, <<"x", "1", "8">>,
      <<"x", "1", "9">>, <<"x", "2", "0">>, <<"x", "2", "1">>,
      <<"x", "2", "2">>, <<"x", "2", "3">>, <<"x", "2", "4">>,
      <<"x", "2", "5">>, <<"x", "2", "6">>, <<"x", "2", "7">>,
      <<"x", "2", "8">>, <<"x", "2", "9">>, <<"x", "3", "0">>,
      <<"x", "3", "1">>>>
\* list.index
IndexOf(list, x) == CHOOSE k \in 1..Len(list) : list[k] = x

Token(type, value) == [type |-> type, value |-> value]
COMMA == Token("COMMA", <<",">>)
NEWLINE == Token("NEWLINE", <<"\n">>)

AllIn(str, class) == \A i \in 1..Len(str) : str[i] \in class
\* the alternatives of the first group: 0[xX][A-f0-9]+, \d+, 0b[0-1]+, [A-z0-9_-]+
IsOffset(str) ==
    \/ Len(str) >= 3 /\ str[1] = "0" /\ str[2] \in {"x", "X"}
          /\ AllIn(SubSeq(str, 3, Len(str)), Class_A_f \cup Digits)
    \/ Len(str) >= 1 /\ AllIn(str, Digits)
    \/ Len(str) >= 3 /\ str[1] = "0" /\ str[2] = "b"
          /\ AllIn(SubSeq(str, 3, Len(str)), {"0", "1"})
    \/ Len(str) >= 1 /\ AllIn(str, Class_A_z \cup Digits \cup {"_", "-"})
\* the second group: [A-z]+[0-9]{0,2}
IsRegisterLike(str) ==
    \E d \in 0..2 :
        /\ d < Len(str)
        /\ AllIn(SubSeq(str, 1, Len(str) - d), Class_A_z)
        /\ AllIn(SubSeq(str, Len(str) - d + 1, Len(str)), Digits)

\* re.match(MEMORY_ADDRESS_PATTERN, arg): the position of the opening
\* parenthesis of group1(group2), or 0 when arg does not match
MemoryAddressMatch(arg) ==
    LET opens == {k \in 2..(Len(arg) - 2) :
                     /\ arg[k] = "("
                     /\ arg[Len(arg)] = ")"
                     /\ IsOffset(SubSeq(arg, 1, k - 1))
                     /\ IsRegisterLike(SubSeq(arg, k + 1, Len(arg) - 1))}
    IN IF opens = {} THEN 0 ELSE CHOOSE k \in opens : TRUE

\* what a generator leaves: the tokens it emitted, and whether it raised
Emitted(tokens, raised) == [tokens |-> tokens, raised |-> raised]

\* a variant of parse_arg that emits the offset before the register
parse_arg_offset_first(arg) ==
    LET comma == arg[Len(arg)] = ","
        a == IF comma THEN SubSeq(arg, 1, Len(arg) - 1) ELSE arg
        k == MemoryAddressMatch(a)
        tail == IF comma THEN <<COMMA>> ELSE <<>>
    IN IF k = 0 THEN Emitted(<<Token("ARGUMENT", a)>> \o tail, FALSE)
       ELSE LET register == lower(SubSeq(a, k + 1, Len(a) - 1))
                offset == SubSeq(a, 1, k - 1)
            IN IF register \in Range(X_REGS)
               THEN Emitted(<<Token("ARGUMENT", offset),
                              Token("ARGUMENT", RISCV_REGS[IndexOf(X_REGS, register)])>>
                                \o tail, FALSE)
               ELSE IF register \notin Range(RISCV_REGS)
               THEN Emitted(<<>>, TRUE)
               ELSE Emitted(<<Token("ARGUMENT", offset),
                              Token("ARGUMENT", register)>> \o tail, FALSE)

\* parse_arg
parse_arg(arg) ==
    LET comma == arg[Len(arg)] = ","
        a == IF comma THEN SubSeq(arg, 1, Len(arg) - 1) ELSE arg
        k == MemoryAddressMatch(a)
        tail == IF comma THEN <<COMMA>> ELSE <<>>
    IN IF k = 0 THEN Emitted(<<Token("ARGUMENT", a)>> \o tail, FALSE)
       ELSE LET register == lower(SubSeq(a, k + 1, Len(a) - 1))
                offset == SubSeq(a, 1, k - 1)
            IN IF register \in Range(X_REGS)
               THEN Emitted(<<Token("ARGUMENT", RISCV_REGS[IndexOf(X_REGS, register)]),
                              Token("ARGUMENT", offset)>> \o tail, FALSE)
               ELSE IF register \notin Range(RISCV_REGS)
               THEN Emitted(<<>>, TRUE)
               ELSE Emitted(<<Token("ARGUMENT", register),
                              Token("ARGUMENT", offset)>> \o tail, FALSE)

\* the body of parse_line after the first token: operands and commas in turn
RECURSIVE ParseOperands(_, _, _, _)
ParseOperands(parts, i, need_comma, out) ==
    IF i > Len(parts)
    THEN Emitted(out, parts[Len(parts)] = <<",">>)
    ELSE IF parts[i] = <<",">>
    THEN IF ~need_comma THEN Emitted(out, TRUE)
         ELSE ParseOperands(parts, i + 1, FALSE, Append(out, COMMA))
    ELSE IF need_comma THEN Emitted(out, TRUE)
    ELSE LET arg == parse_arg(parts[i])
         IN IF arg.raised THEN Emitted(out \o arg.tokens, TRUE)
            ELSE ParseOperands(parts, i + 1, TRUE, out \o arg.tokens)

\* a variant of parse_line that does not reject a line ending in a comma
RECURSIVE parse_line_trailing_comma(_)
parse_line_trailing_comma(parts) ==
    IF Len(parts) = 0 THEN Emitted(<<>>, FALSE)
    ELSE LET first_token == parts[1]
         IN IF first_token[1] = "."
            THEN LET r == ParseOperands(parts, 2, FALSE, <<Token("PSEUDO_OP", first_token)>>)
                 IN Emitted(r.tokens, r.raised /\ parts[Len(parts)] # <<",">>)
            ELSE IF first_token[Len(first_token)] = ":"
            THEN LET rest == parse_line_trailing_comma(Tail(parts))
                 IN Emitted(<<Token("LABEL", first_token)>> \o rest.tokens, rest.raised)
            ELSE LET r == ParseOperands(parts, 2, FALSE,
                                          <<Token("INSTRUCTION_NAME", first_token)>>)
                 IN Emitted(r.tokens, r.raised /\ parts[Len(parts)] # <<",">>)

\* parse_line
RECURSIVE parse_line(_)
parse_line(parts) ==
    IF Len(parts) = 0 THEN Emitted(<<>>, FALSE)
    ELSE LET first_token == parts[1]
         IN IF first_token[1] = "."
            THEN ParseOperands(parts, 2, FALSE, <<Token("PSEUDO_OP", first_token)>>)
            ELSE IF first_token[Len(first_token)] = ":"
            THEN LET rest == parse_line(Tail(parts))
                 IN Emitted(<<Token("LABEL", first_token)>> \o rest.tokens, rest.raised)
            ELSE ParseOperands(parts, 2, FALSE,
                               <<Token("INSTRUCTION_NAME", first_token)>>)

\* line[:line.index(starter)] if starter is in line, for a starter of one or
\* two characters
CutAt(line, starter) ==
    LET n == Len(starter)
        at == {i \in 1..(Len(line) - n + 1) : SubSeq(line, i, i + n - 1) = starter}
    IN IF at = {} THEN line
       ELSE SubSeq(line, 1, (CHOOSE i \in at : \A j \in at : i <= j) - 1)

\* the loop over LINE_COMMENT_STARTERS
StripComment(line) == CutAt(CutAt(CutAt(line, <<"#">>), <<";">>), <<"/", "/">>)

\* line.replace(',', ' , ')
RECURSIVE SpaceCommas(_)
SpaceCommas(line) ==
    IF line = <<>> THEN <<>>
    ELSE (IF Head(line) = "," THEN <<" ", ",", " ">> ELSE <<Head(line)>>)
            \o SpaceCommas(Tail(line))

\* split_whitespace_respecting_quotes, from character i on; quote is the open
\* quote ("" for none), part the part being read, out the parts yielded
RECURSIVE SplitFrom(_, _, _, _, _)
SplitFrom(line, i, quote, part, out) ==
    LET flushed == IF part # <<>> THEN Append(out, part) ELSE out
    IN IF i > Len(line) THEN flushed
       ELSE IF line[i] = quote
       THEN SplitFrom(line, i + 1, "", <<>>, Append(out, part))
       ELSE IF quote # ""
       THEN SplitFrom(line, i + 1, quote, Append(part, line[i]), out)
       ELSE IF line[i] \in {"\"", "'"}
       THEN SplitFrom(line, i + 1, line[i], <<>>, flushed)
       ELSE IF line[i] \in {" ", "\t", "\n"}
       THEN SplitFrom(line, i + 1, "", <<>>, flushed)
       ELSE SplitFrom(line, i + 1, "", Append(part, line[i]), out)

split_whitespace_respecting_quotes(line) == SplitFrom(line, 1, "", <<>>, <<>>)

NonEmpty(part) == part # <<>>

\* the parts tokenize hands to parse_line for one line of input
PartsOf(line) ==
    SelectSeq(split_whitespace_respecting_quotes(SpaceCommas(StripComment(line))),
              NonEmpty)

\* tokenize, for one line of input: nothing for a line that is empty after its
\* comment is cut, else the tokens of parse_line and NEWLINE
tokenize(line) ==
    IF StripComment(line) = <<>> THEN Emitted(<<>>, FALSE)
    ELSE LET r == parse_line(PartsOf(line))
         IN IF r.raised THEN r ELSE Emitted(Append(r.tokens, NEWLINE), FALSE)

(***************************************************************************)
(* The tokenizer, called once: tokenize on one line, or parse_arg on one   *)
(* operand.                                                                *)
(***************************************************************************)
\* a letter, the pseudo-op dot, the comma, the blank and the label colon
LineChars == {"a", ".", ",", " ", ":"}
ShortLines == UNION {[1..n -> LineChars] : n \in 0..MaxLineLen}

\* spellings of offsets and of base registers in a memory operand
Offsets == {<<"4">>, <<"-", "4">>, <<"0", "x", "1", "0">>}
RegisterSpellings ==
    {<<"s", "p">>, <<"S", "p">>, <<"x", "2">>, <<"X", "2">>, <<"s", "1", "1">>,
     <<"x", "3", "1">>, <<"x", "3", "2">>, <<"q", "9">>}

\* lw a0,off(rs) and lw a0,rs,off
MemLine(off, rs) == <<"l", "w", " ", "a", "0", ",">> \o off \o <<"(">> \o rs \o <<")">>
PlainLine(off, rs) == <<"l", "w", " ", "a", "0", ",">> \o rs \o <<",">> \o off

\* lines with a label before operands, with a comment, with quoted operands
OtherLines ==
    {<<"a", ":", " ", "a", " ", "a", ",", "a">>,
     <<"a", ":", " ", "a", " ", "a", " ", "a">>,
     <<"a", ":", " ", "a", " ", "a", ",">>,
     <<"a", " ", "a", ",", "a", "#", ",">>,
     <<"a", " ", "a", "/", "/", "a">>,
     <<";", "a">>,
     <<"a", " ", "'", "a", ",", "'", " ", "a">>,
     <<"a", " ", "\"", "a", " ", "a", "\"", ",", "a">>}

Lines ==
    ShortLines \cup OtherLines
        \cup {MemLine(off, rs) : off \in Offsets, rs \in RegisterSpellings}
        \cup {PlainLine(off, rs) : off \in Offsets, rs \in RegisterSpellings}

Args ==
    {off \o <<"(">> \o rs \o close :
        off \in Offsets, rs \in RegisterSpellings,
        close \in {<<")">>, <<")", ",">>, <<>>, <<")", ")">>}}
        \cup {<<"(">> \o rs \o <<")">> : rs \in RegisterSpellings}
        \cup RegisterSpellings \cup Offsets

\* tokenize on one line
Tokenize(line) ==
    /\ tok.fn = "none"
    /\ LET r == tokenize(line)
       IN tok' = [fn |-> "tokenize", input |-> line, parts |-> PartsOf(line),
                  tokens |-> r.tokens, raised |-> r.raised]
    /\ UNCHANGED <<pc, regs, halted, cycle, exit_code, debugger_active, sections,
                   mem, stack_size, verbosity, faulted, callstack, last,
                   global_symbols, imm_len>>

\* parse_arg on one operand
ParseArg(arg) ==
    /\ tok.fn = "none"
    /\ LET r == parse_arg(arg)
       IN tok' = [fn |-> "parse_arg", input |-> arg, parts |-> <<arg>>,
                  tokens |-> r.tokens, raised |-> r.raised]
    /\ UNCHANGED <<pc, regs, halted, cycle, exit_code, debugger_active, sections,
                   mem, stack_size, verbosity, faulted, callstack, last,
                   global_symbols, imm_len>>

NextTokenizer ==
    \/ \E line \in Lines : Tokenize(line)
    \/ \E arg \in Args : ParseArg(arg)

SpecTokenizer == Init /\ [][NextTokenizer]_vars

(***************************************************************************)
(* ASSERT_IMM_LEN, called with immediates and widths from small ranges.    *)
(***************************************************************************)
ImmWidths == 1..3
ImmValues == -10..13

\* one call ASSERT_IMM_LEN(val, nbits, signed)
AssertImmLen(val, nbits, signed) ==
    /\ imm_len' = [val |-> val, nbits |-> nbits, signed |-> signed,
                   raised |-> ~ASSERT_IMM_LEN(val, nbits, signed),
                   called |-> TRUE]
    /\ UNCHANGED <<pc, regs, halted, cycle, exit_code, debugger_active, sections,
                   mem, stack_size, verbosity, faulted, callstack, last,
                   global_symbols, tok>>

NextImm ==
    \E val \in ImmValues, nbits \in ImmWidths, signed \in BOOLEAN :
        AssertImmLen(val, nbits, signed)

SpecImm == Init /\ [][NextImm]_vars

(***************************************************************************)
(* Properties.                                                             *)
(***************************************************************************)
StepDone == last.op = "step"
Executed(names) ==
    last.op = "step" /\ last.kind = "executed" /\ last.ins.name \in names
Faults ==
    {"ParseException", "MemoryAccessException", "MemoryAlignmentException",
     "UnimplementedInstruction", "StackOverflowException"}

\* C1: a step in which the fetch or the handler raises a fault other than the
\* debug trap ends with the engine halted, and from a halted engine no step
\* (direct or inside run) fetches or executes an instruction.
C1_FaultHaltsNoRetry ==
    [][/\ (StepDone' /\ last'.exc \in Faults) => halted'
       /\ halted => (halted' /\ last'.kind \notin {"executed", "fetch", "guard"}
                         /\ last'.ins = NoIns)]_vars

\* a handler raised a fault (here the alignment fault of lw) and the step ended
C1_Witness ==
    /\ last.op = "step" /\ last.kind = "executed"
    /\ last.exc = "MemoryAlignmentException"
    /\ halted

\* C2: once halted, every operation (step, run, the debugger leaving) leaves
\* halted true and pc, cycle, the registers, memory and the exit code unchanged.
C2_HaltedTerminal ==
    [][halted => (halted' /\ UNCHANGED <<pc, cycle, regs, mem, exit_code>>)]_vars

\* a step was made on a halted engine
C2_Witness == halted /\ last.op = "step" /\ last.kind = "halted" /\ cycle > 0

\* C3: when the stack guard holds at the start of a step on a running engine,
\* the step fetches and executes nothing, leaves pc (and cycle) as they were
\* and halts the engine.
C3_GuardBeforeFetch ==
    [][(~halted /\ StackGuard /\ StepDone') =>
          /\ last'.kind = "guard" /\ last'.exc = "StackOverflowException"
          /\ last'.ins = NoIns
          /\ pc' = pc /\ cycle' = cycle /\ regs' = regs /\ mem' = mem
          /\ halted']_vars

\* the guard fired at a pc that holds an instruction
C3_Witness ==
    last.op = "step" /\ last.kind = "guard" /\ halted /\ Fetchable(pc)

\* the placed stack section
StackSections == {sec \in sections : sec.name = ".stack"}
StackTop == SecEnd(CHOOSE sec \in StackSections : TRUE)

\* C4: with a stack placed by setup_stack, a step on a running engine raises
\* the stack-overflow fault exactly when sp lies more than stack_size - 4096
\* below the top of the stack, wherever the stack section was placed.
C4_GuardRelativeToTop ==
    [][(~halted /\ StackSections # {} /\ StepDone') =>
          ((last'.kind = "guard" /\ halted')
              <=> (StackTop - RegGet(regs, "sp") > stack_size - GuardBand))]_vars

ArgCount(n) == Len(last.ins.args) = n
Traps == {"sbreak", "ebreak"}
DebugFrames(cs) == Cardinality({i \in 1..Len(cs) : cs[i] = "debug"})

\* C5: a step that executes sbreak/ebreak while no debugger is active leaves
\* the engine running, hands control to the debugger once, and leaves pc at
\* the instruction after the breakpoint.
C5_TrapSuspends ==
    [][(Executed(Traps)' /\ ArgCount(0)' /\ ~debugger_active) =>
          /\ ~halted'
          /\ last'.launched /\ ~last'.raised
          /\ debugger_active'
          /\ DebugFrames(callstack') = DebugFrames(callstack) + 1
          /\ pc' = WideAdd(pc, INS_XLEN)]_vars

\* the breakpoint at the program's entry suspended the engine
C5_Witness ==
    /\ Executed(Traps) /\ last.launched
    /\ ~halted /\ debugger_active /\ Top = "debug"
    /\ Fetchable(pc)

\* C6: a step that executes sbreak/ebreak while a debugger is active re-raises
\* the trap to its caller, launches no debug session and does not halt.
C6_TrapPropagates ==
    [][(Executed(Traps)' /\ ArgCount(0)' /\ debugger_active) =>
          /\ last'.raised /\ ~last'.launched
          /\ ~halted'
          /\ debugger_active'
          /\ DebugFrames(callstack') = DebugFrames(callstack)
          /\ DebugFrames(callstack') = 1]_vars

\* two breakpoints in a row, the debugger still active at the second
C6_Witness ==
    /\ Executed(Traps) /\ last.raised
    /\ cycle = 2 /\ pc = Wide(2 * INS_XLEN)
    /\ debugger_active /\ ~halted

\* the relation each branch is to decide, on the signed values a and b of its
\* registers (the second is zero for the one-register forms)
Unsigned(a, b) == IF a >= 0 /\ b < 0 THEN TRUE
                  ELSE IF a < 0 /\ b >= 0 THEN FALSE
                  ELSE a < b
Taken(name, a, b) ==
    CASE name \in {"beq", "beqz"} -> a = b
      [] name \in {"bne", "bnez"} -> a # b
      [] name \in {"blt", "bltz"} -> a < b
      [] name \in {"bge", "bgez"} -> a >= b
      [] name \in {"bgt", "bgtz"} -> a > b
      [] name \in {"ble", "blez"} -> a <= b
      [] name = "bltu" -> Unsigned(a, b)
      [] name = "bgeu" -> ~Unsigned(a, b)
      [] name = "bgtu" -> Unsigned(b, a)
      [] name = "bleu" -> ~Unsigned(b, a)

LinkRegister(i) ==
    IF i.name = "call" \/ Len(i.args) = 1 THEN "ra" ELSE get_reg(i, 0)
Linked(rf, i, ret) == IF LinkRegister(i) = "zero" THEN 0 ELSE ret

\* C8: jal, jalr and call leave the incremented pc in the link register and
\* jump to a target computed from the registers as they were before the link
\* register was written; ret jumps to the address held in ra.
C8_LinkAndReturn ==
    [][/\ (Executed({"jal", "jalr", "call"})' /\ last'.exc = "none") =>
            LET i == last'.ins
                n == Len(i.args)
            IN /\ RegGet(regs', LinkRegister(i)) = Linked(regs, i, pc.low + INS_XLEN)
               /\ \A r \in RegNames \ {LinkRegister(i)} : regs'[r] = regs[r]
               /\ pc' = Wide(CASE i.name \in {"jal", "call"} -> get_imm(i, n - 1)
                               [] i.name = "jalr" /\ n = 1 ->
                                    RegGet(regs, get_reg(i, 0))
                               [] OTHER -> Int32Add(RegGet(regs, get_reg(i, 1)),
                                                    get_imm(i, 2)))
       /\ (Executed({"ret"})' /\ last'.exc = "none") =>
            (pc' = Wide(RegGet(regs, "ra")) /\ regs' = regs)]_vars

\* call at the entry A = 0, then ret: pc is A plus one instruction width
C8_Witness ==
    /\ Executed({"ret"}) /\ last.exc = "none"
    /\ cycle = 2
    /\ RegGet(regs, "ra") = INS_XLEN /\ pc = Wide(INS_XLEN)

\* C9: after jalr or jr executed without fault, pc has bit 0 cleared.
C9_JumpClearsLowBit ==
    (Executed({"jr", "jalr"}) /\ last.exc = "none") => pc.low % 2 = 0

\* the effective address of the executed load or store
EffectiveAddress(rf, i) ==
    unsigned_value(Int32Add(RegGet(rf, get_reg(i, 1)), get_imm(i, 2)))

\* C10: lw and sw on an address that is no multiple of 4 raise the alignment
\* fault and halt the engine; lb and sb raise no alignment fault.
C10_WordAlignment ==
    [][/\ (Executed({"lw", "sw"})' /\ ArgCount(3)'
             /\ EffectiveAddress(regs, last'.ins).low % 4 # 0)
          => (last'.exc = "MemoryAlignmentException" /\ halted')
       /\ Executed({"lb", "sb"})' => last'.exc # "MemoryAlignmentException"]_vars

\* lw on an address inside the stack that is no multiple of 4
C10_Witness ==
    /\ Executed({"lw"}) /\ last.exc = "MemoryAlignmentException" /\ halted
    /\ Mapped(EffectiveAddress(regs, last.ins), 4)

\* C11: a step that executes an instruction with a number of operands its
\* mnemonic is not written with raises the parse fault and halts the engine,
\* and the handler has had no effect: the registers, memory and the exit code
\* are as before and pc is the one step left, one instruction further.
C11_OperandCountFirst ==
    [][(Executed(Mnemonics)'
          /\ Len(last'.ins.args) \notin OperandCounts(last'.ins.name)) =>
          /\ last'.exc = "ParseException"
          /\ halted'
          /\ regs' = regs /\ mem' = mem /\ exit_code' = exit_code
          /\ pc' = WideAdd(pc, INS_XLEN)]_vars

\* a jalr with four operands was rejected with its link register untouched
C11_Witness ==
    /\ Executed({"jalr"}) /\ ArgCount(4)
    /\ last.exc = "ParseException" /\ halted
    /\ RegGet(regs, "a0") = 5

\* the canonical branch a pseudo-branch stands for
Canonical(i) ==
    LET a == i.args[1]
        b == i.args[2]
        zero == R("zero")
    IN CASE i.name = "bgt" -> Ins("blt", <<b, a, i.args[3]>>)
         [] i.name = "ble" -> Ins("bge", <<b, a, i.args[3]>>)
         [] i.name = "bgtu" -> Ins("bltu", <<b, a, i.args[3]>>)
         [] i.name = "bleu" -> Ins("bgeu", <<b, a, i.args[3]>>)
         [] i.name = "beqz" -> Ins("beq", <<a, zero, b>>)
         [] i.name = "bnez" -> Ins("bne", <<a, zero, b>>)
         [] i.name = "bltz" -> Ins("blt", <<a, zero, b>>)
         [] i.name = "bgez" -> Ins("bge", <<a, zero, b>>)
         [] i.name = "bgtz" -> Ins("blt", <<zero, a, b>>)
         [] i.name = "blez" -> Ins("bge", <<zero, a, b>>)
PseudoBranches == {"bgt", "ble", "bgtu", "bleu"} \cup BranchesZero

\* C12: a step that executes a pseudo-branch leaves pc, the registers and
\* memory exactly as the canonical branch it stands for leaves them from the
\* same state, for all register values and all targets.
C12_PseudoBranchEquivalence ==
    [][(Executed(PseudoBranches)' /\ last'.exc = "none") =>
          LET c == run_instruction(Canonical(last'.ins),
                                   Machine(WideAdd(pc, INS_XLEN), regs, mem))
          IN c.exc = "none" /\ pc' = c.pc /\ regs' = c.regs /\ mem' = c.mem]_vars

\* the same, for the targets that are addresses below 2^31
C12_AddressTargetsAgree ==
    [][(Executed(PseudoBranches)' /\ last'.exc = "none"
          /\ get_imm(last'.ins, Len(last'.ins.args) - 1) >= 0) =>
          LET c == run_instruction(Canonical(last'.ins),
                                   Machine(WideAdd(pc, INS_XLEN), regs, mem))
          IN c.exc = "none" /\ pc' = c.pc /\ regs' = c.regs /\ mem' = c.mem]_vars

Syscalls == {"ecall", "scall"}

\* C13: the exit code is 0 at the start, and every operation but a step that
\* executes ecall/scall without fault leaves it unchanged: the steps that
\* execute another instruction, and the steps that halt on a fault.
C13_ExitCodeBySyscallOnly ==
    /\ exit_code = 0
    /\ [][/\ ~(Executed(Syscalls)' /\ last'.exc = "none") => exit_code' = exit_code
          /\ (StepDone' /\ last'.exc \in Faults) => exit_code' = exit_code]_vars

\* a fault halted the engine and the exit code is still 0, with the registers
\* holding what the exit syscall would have taken
C13_Witness ==
    /\ Executed({"lw"}) /\ last.exc = "MemoryAlignmentException"
    /\ halted /\ exit_code = 0
    /\ RegGet(regs, "a0") = 5 /\ RegGet(regs, "utilreg") = SysExit

\* run has returned normally, with or without the exit-code banner
RunReturned == last.op = "run" /\ last.kind \in {"banner", "quiet"}

\* C14: when run returns, it has printed the exit-code banner exactly when the
\* engine halted gracefully: never after a fault's diagnostic, always after a
\* graceful exit.
C14_BannerIffGraceful ==
    RunReturned => ((last.kind = "banner") <=> ~faulted)

\* what a call of setup_stack added to the address space
NewSections == sections' \ sections
NewNames == {sec.name : sec \in NewSections}
SetupStackDone == last'.op = "setup_stack"

\* C15: when setup_stack has placed its stack section, sp is the base of that
\* section plus its size, whatever the size and whatever sections were loaded
\* before; the size is one of the call's, 4096 by default.
C15_StackPointerAtTop ==
    [][(SetupStackDone /\ ".stack" \in NewNames) =>
          \A sec \in NewSections :
              sec.name = ".stack" =>
                  /\ RegGet(regs', "sp") = sec.base + sec.size
                  /\ sec.size \in StackSizes
                  /\ sec.base >= FreeAddress(sections)]_vars

\* setup_stack(4096) succeeded above a program and a data section
C15_Witness ==
    /\ last.op = "setup_stack" /\ last.kind = "true"
    /\ \E sec \in StackSections :
          /\ sec.size = DefaultStackSize
          /\ sec.base = 2 * DefaultStackSize + PeripheralSize
          /\ RegGet(regs, "sp") = sec.base + DefaultStackSize
    /\ \E sec \in sections : sec.code

ShiftedBy(name, v, n) ==
    CASE name \in {"sll", "slli"} -> ShiftLeft(v, n)
      [] name \in {"srl", "srli"} -> ShiftRightLogical(v, n)
      [] name \in {"sra", "srai"} -> ShiftRightArith(v, n)

\* the amount a shift instruction names: the value of its third operand
AmountOf(i, rf) ==
    IF i.name \in Shifts THEN RegGet(rf, get_reg(i, 2)) ELSE get_imm(i, 2)

\* C17: a step that executes sll, srl, sra, slli, srli or srai with three
\* operands writes to the destination register the source value shifted by
\* the amount modulo 32, whatever the amount (negative, or 32 and more).
C17_ShiftAmountMasked ==
    [][(Executed(Shifts \cup ShiftsImmediate)' /\ Len(last'.ins.args) = 3) =>
          /\ last'.exc = "none"
          /\ RegGet(regs', get_reg(last'.ins, 0)) =
                ShiftedBy(last'.ins.name,
                          RegGet(regs, get_reg(last'.ins, 1)),
                          AmountOf(last'.ins, regs) % 32)]_vars

\* sll a0, a0, a1 with a0 = 5 and a1 = 33 shifted by one position
C17_Witness ==
    /\ Executed({"sll"}) /\ ArgCount(3)
    /\ last.exc = "none"
    /\ RegGet(regs, "a1") = 33
    /\ RegGet(regs, "a0") = 10

\* the immediates lui accepts: 0 <= imm < 2^20
UpperRange == Pow2(20)

\* C18: a step that executes lui rd, imm with 0 <= imm < 2^20 leaves in rd the
\* Word with imm in its high 20 bits and zeros in its low 12 bits; with any
\* other immediate the step raises ParseException, changes no register and
\* halts the engine.
C18_LoadUpperImmediate ==
    [][(Executed({"lui"})' /\ Len(last'.ins.args) = 2) =>
          LET rd == get_reg(last'.ins, 0)
              imm == get_imm(last'.ins, 1)
          IN IF 0 <= imm /\ imm < UpperRange
             THEN /\ last'.exc = "none"
                  /\ RegGet(regs', rd) % 4096 = 0
                  /\ (RegGet(regs', rd) \div 4096) % UpperRange = imm
                  /\ \A r \in RegNames \ {rd} : RegGet(regs', r) = RegGet(regs, r)
             ELSE /\ last'.exc = "ParseException"
                  /\ regs' = regs
                  /\ halted']_vars

\* lui a0, 0xFFFFF left 0xFFFFF000 in a0
C18_Witness ==
    /\ Executed({"lui"}) /\ ArgCount(2)
    /\ last.exc = "none"
    /\ get_imm(last.ins, 1) = UpperRange - 1
    /\ RegGet(regs, "a0") = -4096

InRun == Top = "run"

\* C19: run returns normally only from a halted engine, which it leaves
\* halted; inside run a halted engine takes no step, it can only return; a
\* running engine inside run can only step, and it leaves run without being
\* halted only through a debug trap that step raises to the caller.
C19_RunUntilHalted ==
    [][/\ RunReturned' => (InRun /\ halted /\ halted')
       /\ (InRun /\ halted) =>
             (RunReturned' /\ cycle' = cycle /\ pc' = pc /\ regs' = regs)
       /\ (InRun /\ ~halted) =>
             /\ StepDone'
             /\ (callstack' # callstack /\ ~last'.launched) =>
                   (last'.raised /\ last'.exc = "LaunchDebuggerException"
                       /\ ~halted' /\ callstack' = Pop)]_vars

\* run stepped twice, the second step halted the engine, and run returned
C19_Witness ==
    /\ RunReturned /\ halted
    /\ cycle = MaxCycle
    /\ Top = "driver"
    /\ faulted

\* inside run, a debug trap was raised to the debugger that had called run
C19_TrapLeavesRun ==
    /\ StepDone /\ last.raised
    /\ Top = "debug" /\ ~halted

\* C20: in every reachable state the program counter is a 32-bit Word,
\* 0 <= pc < 2^32, whatever targets and register values the control-transfer
\* handlers are given.
C20_PcIsWord == pc.top \in {0, 1}

Constructed == last.op = "new" /\ last'.op = "init"

\* C21: after construction the global symbol table holds every system call's
\* symbol; every symbol the table held before keeps its address, also under a
\* system call's name, and the other system calls' symbols get their numbers.
C21_UserSymbolsWin ==
    [][Constructed =>
          /\ DOMAIN global_symbols' = DOMAIN global_symbols \cup DOMAIN SyscallSymbols
          /\ \A n \in DOMAIN global_symbols : global_symbols'[n] = global_symbols[n]
          /\ \A n \in DOMAIN SyscallSymbols \ DOMAIN global_symbols :
                global_symbols'[n] = SyscallSymbols[n]]_vars

\* the user's SCALL_EXIT at the entry point survived the merge, next to the
\* system calls' SCALL_READ
C21_Witness ==
    /\ last.op = "init"
    /\ DOMAIN global_symbols = DOMAIN SyscallSymbols \cup {"main"}
    /\ global_symbols["SCALL_EXIT"] = Entry
    /\ global_symbols["SCALL_READ"] = SyscallSymbols["SCALL_READ"]

\* C22: the cycle counter never decreases and only a step changes it; a step
\* on a running engine whose stack guard passes adds exactly 1, whether the
\* fetch faults, the handler faults, a debug trap is raised or the instruction
\* completes; a step on a halted engine or one stopped by the guard adds 0.
C22_CycleMonotonic ==
    [][/\ cycle' >= cycle
       /\ ~StepDone' => cycle' = cycle
       /\ StepDone' =>
             IF halted \/ StackGuard
             THEN cycle' = cycle
             ELSE /\ cycle' = cycle + 1
                  /\ last'.kind \in {"fetch", "executed"}]_vars

\* the second step found no instruction at pc: it was counted, and it halted
C22_Witness ==
    /\ StepDone /\ last.kind = "fetch"
    /\ last.exc = "MemoryAccessException"
    /\ halted
    /\ cycle = MaxCycle

\* the instruction fails a handler's validation in the register file rf: a
\* wrong operand count, a misaligned address of lw or sw, an immediate of lui
\* out of range
Rejected(i, rf) ==
    \/ Len(i.args) \notin OperandCounts(i.name)
    \/ i.name \in {"lw", "sw"} /\ Len(i.args) = 3
          /\ EffectiveAddress(rf, i).low % 4 # 0
    \/ i.name = "lui" /\ Len(i.args) = 2
          /\ ~(0 <= get_imm(i, 1) /\ get_imm(i, 1) < UpperRange)

\* C23: a step whose handler rejects the instruction during validation leaves
\* every register and every memory byte as they were; pc is advanced by one
\* instruction width, the cycle counter by 1, the engine is halted, and
\* nothing else of the engine changes.
C23_RejectionFrame ==
    [][(Executed(Mnemonics)' /\ Rejected(last'.ins, regs)) =>
          /\ last'.exc \in {"ParseException", "MemoryAlignmentException"}
          /\ regs' = regs
          /\ DOMAIN mem' = DOMAIN mem
          /\ \A a \in DOMAIN mem : mem'[a] = mem[a]
          /\ pc' = WideAdd(pc, INS_XLEN)
          /\ cycle' = cycle + 1
          /\ ~halted /\ halted'
          /\ exit_code' = exit_code /\ sections' = sections
          /\ debugger_active' = debugger_active /\ callstack' = callstack
          /\ global_symbols' = global_symbols]_vars

\* sw at a mapped address that is no multiple of 4 was rejected, nothing written
C23_Witness ==
    /\ Executed({"sw"}) /\ ArgCount(3)
    /\ last.exc = "MemoryAlignmentException"
    /\ halted /\ cycle = 1 /\ DOMAIN mem = {}
    /\ Mapped(EffectiveAddress(regs, last.ins), 4)

\* C24: a step that executes auipc rd, imm leaves in rd the sum, modulo 2^32,
\* of imm shifted left by 12 and the address of the instruction after the
\* auipc: the low 12 bits are those of that address, the high 20 bits are imm
\* plus the high 20 bits of that address, modulo 2^20.
C24_AddUpperImmediateToPc ==
    [][(Executed({"auipc"})' /\ Len(last'.ins.args) = 2) =>
          LET rd == RegGet(regs', get_reg(last'.ins, 0))
              imm == get_imm(last'.ins, 1)
              next == WideAdd(pc, INS_XLEN)
              high == (next.low \div 4096) + ((next.top % 2) * 524288)
          IN /\ last'.exc = "none"
             /\ pc' = next
             /\ rd % 4096 = next.low % 4096
             /\ (rd \div 4096) % UpperRange = ((imm % UpperRange) + high) % UpperRange]_vars

\* auipc a0, 0xFFFFF at address 0 left 0xFFFFF004 in a0
C24_Witness ==
    /\ Executed({"auipc"}) /\ ArgCount(2)
    /\ get_imm(last.ins, 1) = UpperRange - 1
    /\ pc = Wide(INS_XLEN)
    /\ RegGet(regs, "a0") = INS_XLEN - 4096

\* C25: ASSERT_IMM_LEN raises exactly for the immediates that do not fit in
\* nbits bits: signed, those below -2^(nbits-1) or above 2^nbits - 1;
\* unsigned, those below 0 or above 2^nbits - 1.
C25_ImmLenExact ==
    imm_len.called =>
        (imm_len.raised <=>
            IF imm_len.signed
            THEN imm_len.val < -Pow2(imm_len.nbits - 1)
                    \/ imm_len.val > Pow2(imm_len.nbits) - 1
            ELSE imm_len.val < 0 \/ imm_len.val > Pow2(imm_len.nbits) - 1)

IsComma(part) == part = <<",">>
IsLabel(part) == part[1] # "." /\ part[Len(part)] = ":"

\* the parts of a line after its leading labels
RECURSIVE SkipLabels(_)
SkipLabels(parts) ==
    IF parts # <<>> /\ IsLabel(parts[1]) THEN SkipLabels(Tail(parts)) ELSE parts

\* operands and commas do not alternate after the first token: a comma before
\* the first operand or right after a comma, two operands with no comma
\* between them, or a comma at the end of the line
BadAlternation(body) ==
    \/ \E i \in 2..Len(body) :
          IsComma(body[i]) /\ (i = 2 \/ IsComma(body[i - 1]))
    \/ \E i \in 3..Len(body) : ~IsComma(body[i]) /\ ~IsComma(body[i - 1])
    \/ body # <<>> /\ IsComma(body[Len(body)])

\* an operand of the line names no valid register in its parentheses
BadOperand(body) ==
    \E i \in 2..Len(body) : ~IsComma(body[i]) /\ parse_arg(body[i]).raised

TokenTypes(tokens) == [i \in 1..Len(tokens) |-> tokens[i].type]

\* C26: tokenize raises ParseException on every line whose operands and commas
\* do not alternate after the leading labels and the first token, and on no
\* other line but one with an invalid memory operand; the tokens of a line it
\* accepts hold no two COMMA tokens in a row and no COMMA before the NEWLINE.
C26_CommaAlternation ==
    tok.fn = "tokenize" =>
        LET body == SkipLabels(tok.parts)
            types == TokenTypes(tok.tokens)
        IN /\ tok.raised <=> (BadAlternation(body) \/ BadOperand(body))
           /\ ~tok.raised =>
                 /\ \A i \in 2..Len(types) :
                       ~(types[i] = "COMMA" /\ types[i - 1] = "COMMA")
                 /\ \A i \in 2..Len(types) :
                       types[i] = "NEWLINE" => types[i - 1] # "COMMA"
                 /\ types # <<>> => types[Len(types)] = "NEWLINE"

\* the line "a: a," was rejected after the label and the name were emitted
C26_Witness ==
    /\ tok.fn = "tokenize" /\ tok.raised
    /\ tok.input = <<"a", ":", " ", "a", ",">>
    /\ TokenTypes(tok.tokens) = <<"LABEL", "INSTRUCTION_NAME">>

IsArgument(token) == token.type = "ARGUMENT"
\* the values of the ARGUMENT tokens, in order
ArgValues(tokens) ==
    LET args == SelectSeq(tokens, IsArgument)
    IN [i \in 1..Len(args) |-> args[i].value]

ValidRegister(rs) == lower(rs) \in Range(RISCV_REGS) \cup Range(X_REGS)
\* the ABI name of a valid register
AbiName(rs) ==
    IF lower(rs) \in Range(X_REGS)
    THEN RISCV_REGS[IndexOf(X_REGS, lower(rs))]
    ELSE lower(rs)

\* parse_arg on off(rs): two ARGUMENT tokens, the register under its ABI name
\* and then the offset, or ParseException and no token for an invalid register
C27_ParseArgTokens ==
    tok.fn = "parse_arg" =>
        \A off \in Offsets, rs \in RegisterSpellings :
            tok.input = off \o <<"(">> \o rs \o <<")">> =>
                IF ValidRegister(rs)
                THEN /\ ~tok.raised
                     /\ tok.tokens = <<Token("ARGUMENT", AbiName(rs)),
                                       Token("ARGUMENT", off)>>
                ELSE tok.raised /\ tok.tokens = <<>>

\* an accepted line lw a0,off(rs) has the three arguments of lw a0,rs,off
C27_SameArguments ==
    tok.fn = "tokenize" =>
        \A off \in Offsets, rs \in RegisterSpellings :
            (tok.input = MemLine(off, rs) /\ ~tok.raised) =>
                /\ Len(ArgValues(tok.tokens)) = 3
                /\ ArgValues(tok.tokens)
                      = ArgValues(tokenize(PlainLine(off, rs)).tokens)

\* C27: for an operand off(rs), parse_arg emits exactly two ARGUMENT tokens,
\* the register (an x-style name replaced by its ABI name) and then the offset,
\* and raises ParseException with no token when the register is invalid; and
\* lw rd,off(rs) gives the same three arguments as lw rd,rs,off.
C27_MemoryOperand == C27_ParseArgTokens /\ C27_SameArguments

====
